---- MODULE Spec2Model ----
(***************************************************************************)
(* Model of the interactive issue browser of jira-tui: the root controller *)
(* (IssueList), its per-tab Table and IssueModel (detail pane), the        *)
(* board-state resolver, and the asynchronous commands the controller      *)
(* hands to the bubbletea runtime.                                         *)
(*                                                                         *)
(* The bubbletea runtime is modelled as follows.  The dispatch loop calls  *)
(* Update for one message at a time and View right after it; every loop    *)
(* action below is one Update followed by that View.  A tea.Cmd is run by  *)
(* the runtime in a goroutine of its own; its steps are the "background"   *)
(* actions, and the message it returns is handed to the loop by a          *)
(* "Deliver" action, in any order relative to other commands.              *)
(* tea.ExecProcess suspends the loop until the subprocess has ended.       *)
(***************************************************************************)
EXTENDS Integers, Sequences, FiniteSets, TLC

VARIABLES
    activeTab,          \* IssueList.activeTab
    model,              \* the tea.Model the runtime currently drives
    size,               \* IssueList.rawHeight / tableHeight / previewHeight
    tabs,               \* IssueList.tabs: per tab TabConfig (BoardId, BoardStateResolver)
    tables,             \* IssueList.tables: per tab Table
    issueDetailViews,   \* IssueList.issueDetailViews: per tab IssueModel
    cachedAllUsers,     \* IssueList.cachedAllUsers is non-nil
    status,             \* IssueList.statusMessage / statusTimer, and the time
    tasks,              \* commands in flight (goroutines started by the runtime)
    exec,               \* the subprocess run by tea.ExecProcess, if any
    remote,             \* the remote issue tracker: version of each issue, backlog set
    proc,               \* "running", or the way the process ended
    io                  \* blocking calls the dispatch loop made in its last handler

vars == <<activeTab, model, size, tabs, tables, issueDetailViews, cachedAllUsers,
          status, tasks, exec, remote, proc, io>>

----------------------------------------------------------------------------
(* Bounds of the model *)

MaxTasks == 2           \* commands a key press may add to while this many are in flight
MaxMutations == 1       \* changes made to issues on the remote service
MaxQuery == 2           \* characters typed into the filter
ScrollSize == 2         \* viper "ui.issue.scroll_size"

(* Program constants *)

SorterInactive == 0
SorterFiltering == 1
SorterActive == 2
sorterHeight == 3

----------------------------------------------------------------------------
(* Input data: the issues the remote service holds *)

IssueKeys == {"A", "B", "C"}
NoTask == [kind |-> "none"]
NilIssue == [key |-> "", ver |-> 0]

\* keys the search of a tab returns, in order
SearchResult(t) == IF t = 0 THEN <<"A", "B", "C">> ELSE IF t = 1 THEN <<"C">> ELSE <<>>

\* TabConfig.BoardId; 0 means that the tab has no board
BoardIdOf(t) == IF t = 0 THEN 7 ELSE 0

\* the text of an issue key and of its summary, one character per element
KeyText(k) == <<k>>
SummaryText(k) == IF k = "A" THEN <<"x", "B">>
                  ELSE IF k = "B" THEN <<"a", "c">>
                  ELSE <<"x", "a">>

\* number of lines the rendered document of an issue has
DocLines(k) == IF k = "A" THEN 6 ELSE IF k = "B" THEN 3 ELSE 12

\* the markdown links [text](address) of an issue's description and comments,
\* in document order: the rendered line a link lands on, and the lengths of
\* its text and of its address. Links are user data: a text may be empty.
DocLinks(k) ==
    IF k = "A" THEN <<>>
    ELSE IF k = "B" THEN <<[line |-> 1, text |-> 0, url |-> 12]>>
    ELSE <<[line |-> 3, text |-> 4, url |-> 12], [line |-> 10, text |-> 5, url |-> 12]>>

\* window heights the terminal reports
WinHeights == {10, 20}

Min(a, b) == IF a < b THEN a ELSE b
Max(a, b) == IF a > b THEN a ELSE b

----------------------------------------------------------------------------
(* Strings: strings.ToLower and strings.Contains on character sequences *)

LowerChar(c) == IF c = "A" THEN "a" ELSE IF c = "B" THEN "b" ELSE IF c = "C" THEN "c" ELSE c
ToLower(s) == [i \in 1 .. Len(s) |-> LowerChar(s[i])]

Contains(s, sub) ==
    \E i \in 0 .. (Len(s) - Len(sub)) :
        \A j \in 1 .. Len(sub) : s[i + j] = sub[j]

----------------------------------------------------------------------------
(* Issue cache: map[string]*jira.Issue as a set of [key, ver] entries *)

CacheHas(c, k) == \E e \in c : e.key = k
CacheGet(c, k) == CHOOSE e \in c : e.key = k
CachePut(c, iss) == {e \in c : e.key # iss.key} \cup {iss}
CacheDelete(c, k) == {e \in c : e.key # k}

----------------------------------------------------------------------------
(* Table *)

\* NewTable
NewTable ==
    [loaded |-> FALSE, allIssues |-> <<>>, filteredIssues |-> <<>>, aliased |-> FALSE,
     SorterState |-> SorterInactive, sorterText |-> <<>>,
     cursor |-> 0, rows |-> 0, issueCache |-> {},
     rawHeight |-> 0, viewportHeight |-> 0]

\* Table.Update(WidgetSizeMsg)
TableResize(t, h) ==
    [t EXCEPT !.rawHeight = h, !.viewportHeight = h - 2 - 2 - 2]

\* the filter predicate of Table.filterTableData
Matches(iss, q) ==
    Contains(KeyText(iss.key), q) \/ Contains(ToLower(SummaryText(iss.key)), ToLower(q))

\* the loop of Table.filterTableData: the matching issues, in the order of allIssues
RECURSIVE FilterLoop(_, _)
FilterLoop(issues, q) ==
    IF issues = <<>> THEN <<>>
    ELSE IF Matches(Head(issues), q)
         THEN <<Head(issues)>> \o FilterLoop(Tail(issues), q)
         ELSE FilterLoop(Tail(issues), q)

\* Table.filterTableData
filterTableData(t, q) ==
    IF q = <<>>
    THEN [t EXCEPT !.filteredIssues = t.allIssues, !.aliased = TRUE]
    ELSE [t EXCEPT !.filteredIssues = FilterLoop(t.allIssues, q), !.aliased = FALSE]

\* the issues the table shows: allIssues, or filteredIssues while a filter is on
issuePool(t) == IF t.SorterState = SorterInactive THEN t.allIssues ELSE t.filteredIssues

\* Table.getKeyUnderCursorWithShift
getKeyUnderCursorWithShift(t, shift) ==
    LET pool == issuePool(t)
        p0 == t.cursor + shift
        p1 == IF p0 < 0 THEN 0 ELSE p0
        pos == IF p1 >= Len(pool) THEN Len(pool) - 1 ELSE p1
    IN  IF pos = -1 THEN "" ELSE pool[pos + 1].key

\* the forked bubbles table: MoveDown(1) / MoveUp(1) on the rows of the last View
InnerMove(t, delta) ==
    [t EXCEPT !.cursor = Max(0, Min(t.rows - 1, t.cursor + delta))]

\* Table.Update(tea.KeyMsg) for a key the table itself does not handle:
\* the spinner takes it until the issues are there, the inner table after that
TableKeyMove(t, delta) == IF t.loaded THEN InnerMove(t, delta) ELSE t

\* Table.SetIssueData for a slice that is not the table's own allIssues
SetIssueData(t, issues) ==
    [t EXCEPT !.loaded = TRUE, !.allIssues = issues, !.aliased = FALSE]

\* Table.View, if it did not hand the shown issues to the inner table again
\* once the table has rows
TableViewMutKeepsRows(t) ==
    IF ~t.loaded \/ Len(t.allIssues) = 0 \/ t.rows > 0 THEN t
    ELSE LET n == Len(issuePool(t))
         IN  [t EXCEPT !.rows = n,
                       !.cursor = IF t.cursor > n - 1 THEN Max(0, n - 1) ELSE t.cursor]

\* Table.View: setInnerTableColumnsRows hands the shown issues to the inner
\* table, whose SetRows keeps the cursor on a row
TableView(t) ==
    IF ~t.loaded \/ Len(t.allIssues) = 0 THEN t
    ELSE LET n == Len(issuePool(t))
         IN  [t EXCEPT !.rows = n,
                       !.cursor = IF t.cursor > n - 1 THEN Max(0, n - 1) ELSE t.cursor]

----------------------------------------------------------------------------
(* IssueModel, the detail pane *)

\* IssueModel.calculateViewportDimensions
PaneDimensions(d) == [d EXCEPT !.contentHeight = d.RawHeight - 1]

\* NewIssueModel
NewIssueModel ==
    PaneDimensions([Data |-> NilIssue, RawHeight |-> 0, contentHeight |-> 0,
                    firstVisibleLine |-> 0, currentlyHighlightedLinkPos |-> -1,
                    uniqueLinkTitleReplacement |-> 0, nLinks |-> 0])

\* IssueModel.Update(WidgetSizeMsg)
PaneResize(d, h) == PaneDimensions([d EXCEPT !.RawHeight = h])

\* IssueModel.countLinks: the matches of the link pattern in the fragments
countLinks(d) == [d EXCEPT !.nLinks = Len(DocLinks(d.Data.key))]

\* IssueModel.ResetResetables
ResetResetables(d) ==
    countLinks(PaneDimensions([d EXCEPT !.currentlyHighlightedLinkPos = -1,
                                        !.firstVisibleLine = 0]))

\* IssueModel.Update(*jira.Issue)
PaneSetIssue(d, iss) == ResetResetables([d EXCEPT !.Data = iss])

\* len(iss.renderedLines) after prepareRenderedLines
TotalLines(d) == DocLines(d.Data.key)

\* maxScroll of IssueModel.scrollDown
MaxScroll(d) == Max(0, TotalLines(d) - d.contentHeight)

\* the scroll step: viper's ui.issue.scroll_size, 1 when it is not positive
ScrollStep == IF ScrollSize <= 0 THEN 1 ELSE ScrollSize

\* IssueModel.scrollDown
scrollDown(d) ==
    LET newScrollPos == Min(d.firstVisibleLine + ScrollStep, MaxScroll(d))
    IN  IF newScrollPos > d.firstVisibleLine
        THEN [d EXCEPT !.firstVisibleLine = newScrollPos]
        ELSE d

\* IssueModel.scrollUp
scrollUp(d) ==
    [d EXCEPT !.firstVisibleLine = Max(0, d.firstVisibleLine - ScrollStep)]

\* IssueModel.getVisibleLines slices renderedLines[first : first+contentHeight]
\* when the document is longer than the pane; the slice is out of range when
\* it ends behind the last line
VisibleLinesPanics(d) ==
    /\ TotalLines(d) > d.contentHeight
    /\ \/ d.firstVisibleLine + d.contentHeight > TotalLines(d)
       \/ d.contentHeight < 0

\* IssueModel.View reaches getVisibleLines when there is an issue and room for it
PaneViewPanics(d) ==
    /\ d.Data # NilIssue
    /\ d.contentHeight > 0
    /\ VisibleLinesPanics(d)

\* len("https://"), which colorizeSelected takes off the length of an address
SchemeLen == 8

\* IssueModel.colorizeSelected, run over the description and the comments by
\* a render: the link at which the countdown from currentlyHighlightedLinkPos
\* reaches 0, if there is one
SelectedLink(d) ==
    LET links == DocLinks(d.Data.key)
        pos == d.currentlyHighlightedLinkPos
    IN  IF pos >= 0 /\ pos < Len(links) THEN <<links[pos + 1]>> ELSE <<>>

\* strings.Repeat("Y", len(linkURL)-len("https://")) panics on a negative count
RenderPanics(d) == \E i \in DOMAIN SelectedLink(d) : SelectedLink(d)[i].url < SchemeLen

\* IssueModel.prepareRenderedLines: the render replaces the text of the
\* selected link by as many X and remembers that placeholder (its length here)
prepareRenderedLines(d) ==
    IF SelectedLink(d) # <<>>
    THEN [d EXCEPT !.uniqueLinkTitleReplacement = SelectedLink(d)[1].text]
    ELSE d

\* IssueModel.getVisibleLines: the rendered lines it returns
VisibleLines(d) ==
    IF TotalLines(d) <= d.contentHeight
    THEN 0 .. (TotalLines(d) - 1)
    ELSE d.firstVisibleLine .. (d.firstVisibleLine + d.contentHeight - 1)

\* the exit test of the "tab" loop, if it looked at the whole render instead
\* of the window
PlaceholderVisibleMutAnyLine(d) ==
    /\ d.uniqueLinkTitleReplacement > 0
    /\ \E i \in DOMAIN SelectedLink(d) :
          SelectedLink(d)[i].text >= d.uniqueLinkTitleReplacement

\* len(uniqueLinkTitleReplacement) > 0 && strings.Contains(out, uniqueLinkTitleReplacement):
\* the only run of X in a render is the placeholder of the selected link
PlaceholderVisible(d) ==
    /\ d.uniqueLinkTitleReplacement > 0
    /\ \E i \in DOMAIN SelectedLink(d) :
          /\ SelectedLink(d)[i].text >= d.uniqueLinkTitleReplacement
          /\ SelectedLink(d)[i].line \in VisibleLines(d)

\* the for-loop of IssueModel.Update "tab": render, stop when the placeholder
\* is in the window, else scroll down, and start over from line 0 when the
\* scroll did not move. The loop has no other exit: it runs forever once it
\* comes back to a scroll position it has tried (seen). n counts its scrolls.
RECURSIVE scrollUntilVisible(_, _)
scrollUntilVisible(d, seen) ==
    LET r == prepareRenderedLines(d)
    IN  IF RenderPanics(d) \/ VisibleLinesPanics(r)
        THEN [end |-> "panic", d |-> r, n |-> Cardinality(seen)]
        ELSE IF PlaceholderVisible(r)
        THEN [end |-> "return", d |-> r, n |-> Cardinality(seen)]
        ELSE IF r.firstVisibleLine \in seen
        THEN [end |-> "hang", d |-> r, n |-> Cardinality(seen)]
        ELSE LET s == scrollDown(r)
                 next == IF s.firstVisibleLine = r.firstVisibleLine
                         THEN [s EXCEPT !.firstVisibleLine = 0]
                         ELSE s
             IN  scrollUntilVisible(next, seen \cup {r.firstVisibleLine})

\* IssueModel.Update(tea.KeyMsg) "tab", if the step past the last link kept
\* the scroll position
cycleLinkMutKeepsScroll(d) ==
    IF d.currentlyHighlightedLinkPos = d.nLinks - 1
    THEN [end |-> "return",
          d |-> [d EXCEPT !.currentlyHighlightedLinkPos = -1],
          n |-> 0]
    ELSE scrollUntilVisible([d EXCEPT !.currentlyHighlightedLinkPos = @ + 1], {})

\* IssueModel.Update(tea.KeyMsg) "tab"
cycleLink(d) ==
    IF d.currentlyHighlightedLinkPos = d.nLinks - 1
    THEN [end |-> "return",
          d |-> [d EXCEPT !.currentlyHighlightedLinkPos = -1, !.firstVisibleLine = 0],
          n |-> 0]
    ELSE scrollUntilVisible([d EXCEPT !.currentlyHighlightedLinkPos = @ + 1], {})

----------------------------------------------------------------------------
(* The remote service *)

\* GET /issue/{key} answers 200 only for an issue that exists
RemoteHas(k) == k \in IssueKeys

\* the issue a successful ProxyGetIssue returns
RemoteIssue(r, k) == [key |-> k, ver |-> r.ver[k]]

\* the rows a successful search of a tab returns
RemoteRows(r, t) == [i \in 1 .. Len(SearchResult(t)) |-> RemoteIssue(r, SearchResult(t)[i])]

\* a mutation of an issue on the remote service
RECURSIVE SumVer(_, _)
SumVer(r, ks) == IF ks = {} THEN 0
                 ELSE LET k == CHOOSE j \in ks : TRUE IN r.ver[k] + SumVer(r, ks \ {k})

RemoteMutate(r, k) ==
    IF k \in IssueKeys /\ SumVer(r, IssueKeys) < MaxMutations
    THEN [r EXCEPT !.ver[k] = @ + 1]
    ELSE r

----------------------------------------------------------------------------
(* Commands in flight *)

NilResolver == [present |-> FALSE, backlog |-> {}]

\* a command: what it is, what it has captured, and how far it has come;
\* n counts the commands that are alike in all of that
Task(kind, tab, key, pc) ==
    [n |-> 1, kind |-> kind, tab |-> tab, key |-> key, pc |-> pc,
     ver |-> 0, orphan |-> FALSE, cached |-> {}, own |-> FALSE,
     loaded |-> FALSE, issues |-> <<>>, err |-> "none", what |-> "none", about |-> "",
     height |-> 0]

Alike(x, y) == [x EXCEPT !.n = 1] = [y EXCEPT !.n = 1]

RECURSIVE Count(_)
Count(ts) == IF ts = {} THEN 0
             ELSE LET x == CHOOSE y \in ts : TRUE IN x.n + Count(ts \ {x})

Add(ts, x) ==
    IF \E y \in ts : Alike(x, y)
    THEN {IF Alike(x, y) THEN [y EXCEPT !.n = y.n + x.n] ELSE y : y \in ts}
    ELSE ts \cup {x}

\* one command like x leaves
Remove(ts, x) ==
    IF x.n > 1 THEN (ts \ {x}) \cup {[x EXCEPT !.n = x.n - 1]} ELSE ts \ {x}

\* one command like x becomes y
Step(ts, x, y) == Add(Remove(ts, x), [y EXCEPT !.n = 1])

RECURSIVE AddAll(_, _)
AddAll(ts, xs) == IF xs = {} THEN ts
                  ELSE LET x == CHOOSE y \in xs : TRUE IN AddAll(Add(ts, x), xs \ {x})

Spawn(ts, kind, tab, key, pc) == Add(ts, Task(kind, tab, key, pc))

\* Table.GetIssueAsync: the key is read when the command is made; the command
\* for the empty key only returns NopMsg, which no handler looks at
GetIssueAsync(ts, t, i, shift) ==
    LET key == getKeyUnderCursorWithShift(t, shift)
    IN  IF key = "" THEN ts ELSE Spawn(ts, "fetch", i, key, "start")

\* the slice a pending IncomingIssueListMsg of reinitOnlyOneIssue refers to is
\* the table's allIssues; once the table gets another slice the message keeps
\* the old one
DetachSlice(ts, idx, old) ==
    AddAll({}, {IF x.kind = "relist" /\ x.tab = idx /\ x.own
                THEN [x EXCEPT !.own = FALSE, !.loaded = old.loaded, !.issues = old.allIssues]
                ELSE x : x \in ts})

\* a GetIssueAsync command holds the Table it was made for; once reinitTable
\* has put a new Table in its place the command reads and writes the cache
\* of the old one
DetachTable(ts, idx, old) ==
    AddAll({}, {IF x.kind = "fetch" /\ x.tab = idx /\ ~x.orphan
                THEN [x EXCEPT !.orphan = TRUE, !.cached = {e \in old.issueCache : e.key = x.key}]
                ELSE x : x \in DetachSlice(ts, idx, old)})

----------------------------------------------------------------------------
(* Initial state: RunMainUI has built the IssueList and the runtime has     *)
(* called IssueList.Init, which made one reinitTable command per tab.       *)

ListModel == [kind |-> "list", selectorType |-> "none", height |-> 0, parent |-> "none"]

\* no status message is shown and no timer is set; now counts half seconds
\* since the start, shownAt is the time the message was set
NoMessage == [text |-> "", key |-> ""]
NoStatus == [message |-> NoMessage, timer |-> FALSE, now |-> 0, shownAt |-> 0]

\* the tabs of a configuration, numbered from 0
TabsOf(n) == 0 .. (n - 1)

\* NewIssueList and IssueList.Init for a configuration of n tabs
Start(n) ==
    /\ activeTab = 0
    /\ model = ListModel
    /\ size = [rawHeight |-> 0, tableHeight |-> 0, previewHeight |-> 0]
    /\ tabs = [t \in TabsOf(n) |-> [BoardId |-> BoardIdOf(t), BoardStateResolver |-> NilResolver]]
    /\ tables = [t \in TabsOf(n) |-> NewTable]
    /\ issueDetailViews = [t \in TabsOf(n) |-> PaneResize(NewIssueModel, 0)]
    /\ cachedAllUsers = FALSE
    /\ status = NoStatus
    /\ tasks = {Task("list", t, "", "start") : t \in TabsOf(n)}
    /\ exec = NoTask
    /\ remote = [ver |-> [k \in IssueKeys |-> 0], backlog |-> {"B"}]
    /\ proc = "running"
    /\ io = {}

\* a configuration with two tabs, and one with a single tab
Init == Start(Cardinality({"board", "search"}))
InitOneTab == Start(Cardinality({"board"}))
InitThreeTabs == Start(Cardinality({"board", "search", "mine"}))

Tabs == DOMAIN tabs
NTabs == Cardinality(Tabs)

----------------------------------------------------------------------------
(* The dispatch loop *)

\* the loop takes the next message: the process runs and no subprocess holds the terminal
LoopReady == proc = "running" /\ exec = NoTask

\* the controller is the model the runtime drives
ListMode == LoopReady /\ model.kind = "list"

\* a key press may start another command
Room == Count(tasks) < MaxTasks

\* the end of a handler that returned: the new state, and the View of the
\* model that is now driven (IssueList.View renders the active tab only)
Return(tb, dv, at, md, ts, ios) ==
    /\ tables' = IF md.kind = "list" THEN [tb EXCEPT ![at] = TableView(@)] ELSE tb
    /\ issueDetailViews' = dv
    /\ activeTab' = at
    /\ model' = md
    /\ tasks' = ts
    /\ io' = ios
    /\ proc' = IF md.kind = "list" /\ PaneViewPanics(dv[at]) THEN "panic_view" ELSE "running"

\* the end of a handler that did not return: a panic or an os.Exit
Dies(how, ios) ==
    /\ proc' = how
    /\ io' = ios
    /\ UNCHANGED <<activeTab, model, size, tabs, tables, issueDetailViews,
                   cachedAllUsers, status, tasks, exec, remote>>

\* int(0.4 * float32(x)), which truncates towards zero
TwoFifths(x) == IF x >= 0 THEN (2 * x) \div 5 ELSE 0 - ((2 * (0 - x)) \div 5)

\* rows reserved for the tab bar
TabHeight == IF NTabs > 1 THEN 2 ELSE 0

\* IssueList.Update(tea.WindowSizeMsg): the sizes the controller computes
SizeFor(h) ==
    [rawHeight |-> h,
     tableHeight |-> TwoFifths(h - TabHeight),
     previewHeight |-> h - TwoFifths(h - TabHeight) - TabHeight]

\* IssueList.Update(tea.WindowSizeMsg), if it sized the active tab only
OnWindowSizeMutActiveOnly(h, ts) ==
    /\ size' = SizeFor(h)
    /\ Return([tables EXCEPT ![activeTab] = TableResize(@, SizeFor(h).tableHeight)],
              [issueDetailViews EXCEPT ![activeTab] = PaneResize(@, SizeFor(h).previewHeight)],
              activeTab, model, ts, {})
    /\ UNCHANGED <<tabs, cachedAllUsers, status, exec, remote>>

\* IssueList.Update(tea.WindowSizeMsg)
OnWindowSize(h, ts) ==
    /\ size' = SizeFor(h)
    /\ Return([t \in Tabs |-> TableResize(tables[t], SizeFor(h).tableHeight)],
              [t \in Tabs |-> PaneResize(issueDetailViews[t], SizeFor(h).previewHeight)],
              activeTab, model, ts, {})
    /\ UNCHANGED <<tabs, cachedAllUsers, status, exec, remote>>

\* the terminal reports its size
WindowSize(h) ==
    /\ ListMode
    /\ OnWindowSize(h, tasks)

\* IssueList.Update(tea.KeyMsg) "down"/"j" (delta 1) and "up"/"k" (delta -1)
KeyMove(delta) ==
    /\ ListMode
    /\ Room
    /\ tables[activeTab].SorterState # SorterFiltering
    /\ Return([tables EXCEPT ![activeTab] = TableKeyMove(@, delta)],
              issueDetailViews, activeTab, model,
              GetIssueAsync(tasks, tables[activeTab], activeTab, delta), {})
    /\ UNCHANGED <<size, tabs, cachedAllUsers, status, exec, remote>>

KeyDown == KeyMove(1)
KeyUp == KeyMove(-1)

----------------------------------------------------------------------------
(* Commands: the steps of the goroutines *)

TaskAt(x, kind, pc) == x \in tasks /\ x.kind = kind /\ x.pc = pc /\ proc = "running"

BackgroundFrame == io' = {} /\ UNCHANGED <<activeTab, model, size, cachedAllUsers, status, exec>>

\* exp.CreateBoardStateResolver
CreateBoardStateResolver(boardId, ok) ==
    IF boardId = 0 \/ ~ok THEN NilResolver
    ELSE [present |-> TRUE, backlog |-> remote.backlog]

\* the command of reinitTable: it stores a new resolver in the TabConfig and
\* searches the issues; a failed search ends the process (cmdutil.ExitIfError)
ListFetch(x, okBacklog, okSearch) ==
    /\ TaskAt(x, "list", "start")
    /\ tabs' = [tabs EXCEPT ![x.tab].BoardStateResolver =
                    CreateBoardStateResolver(tabs[x.tab].BoardId, okBacklog)]
    /\ IF okSearch
       THEN /\ tasks' = Step(tasks, x, [x EXCEPT !.pc = "send", !.loaded = TRUE, !.issues = RemoteRows(remote, x.tab)])
            /\ proc' = "running"
       ELSE /\ tasks' = tasks
            /\ proc' = "exit_cmd"
    /\ UNCHANGED <<tables, issueDetailViews, remote>>
    /\ BackgroundFrame

\* GetIssueAsync that keeps the failure of a request in the cache
FetchStartMutCachesFailure(x, ok) ==
    /\ TaskAt(x, "fetch", "start")
    /\ LET cache == IF x.orphan THEN x.cached ELSE tables[x.tab].issueCache
       IN  IF CacheHas(cache, x.key)
           THEN /\ tasks' = Step(tasks, x, [x EXCEPT !.pc = "send", !.ver = CacheGet(cache, x.key).ver])
                /\ proc' = "running"
                /\ tables' = tables
           ELSE IF ok /\ RemoteHas(x.key)
           THEN /\ tasks' = Step(tasks, x, [x EXCEPT !.pc = "fetched", !.ver = remote.ver[x.key]])
                /\ proc' = "running"
                /\ tables' = tables
           ELSE /\ tasks' = tasks
                /\ proc' = "panic_cmd"
                /\ tables' = [tables EXCEPT ![x.tab].issueCache = CachePut(@, NilIssue)]
    /\ UNCHANGED <<tabs, issueDetailViews, remote>>
    /\ BackgroundFrame

\* the command of Table.GetIssueAsync up to the answer of ProxyGetIssue:
\* a cached issue is returned at once, a failed request panics
FetchStart(x, ok) ==
    /\ TaskAt(x, "fetch", "start")
    /\ LET cache == IF x.orphan THEN x.cached ELSE tables[x.tab].issueCache
       IN  IF CacheHas(cache, x.key)
           THEN /\ tasks' = Step(tasks, x, [x EXCEPT !.pc = "send", !.ver = CacheGet(cache, x.key).ver])
                /\ proc' = "running"
           ELSE IF ok /\ RemoteHas(x.key)
           THEN /\ tasks' = Step(tasks, x, [x EXCEPT !.pc = "fetched", !.ver = remote.ver[x.key]])
                /\ proc' = "running"
           ELSE /\ tasks' = tasks
                /\ proc' = "panic_cmd"
    /\ UNCHANGED <<tabs, tables, issueDetailViews, remote>>
    /\ BackgroundFrame

\* the rest of the command: t.issueCache[key] = iss, written by the goroutine
FetchWrite(x) ==
    /\ TaskAt(x, "fetch", "fetched")
    /\ tasks' = Step(tasks, x, [x EXCEPT !.pc = "send"])
    /\ tables' = IF x.orphan THEN tables
                 ELSE [tables EXCEPT ![x.tab].issueCache = CachePut(@, [key |-> x.key, ver |-> x.ver])]
    /\ UNCHANGED <<tabs, issueDetailViews, remote, proc>>
    /\ BackgroundFrame

\* two goroutines that use the map of one Table at the same time: the Go
\* runtime may stop the process with "concurrent map writes"
FetchWriteRace(x) ==
    /\ TaskAt(x, "fetch", "fetched")
    /\ \E y \in tasks : /\ (y # x \/ x.n > 1)
                         /\ y.kind = "fetch" /\ y.tab = x.tab
                         /\ y.orphan = x.orphan /\ y.pc \in {"start", "fetched"}
    /\ proc' = "fatal_map"
    /\ UNCHANGED <<tabs, tables, issueDetailViews, remote, tasks>>
    /\ BackgroundFrame

----------------------------------------------------------------------------
(* Messages of the commands, handled by the loop *)

\* a message for the controller that arrives while a modal is driven is
\* handed to the modal, which does nothing with it
Dropped(x) ==
    /\ LoopReady
    /\ model.kind # "list"
    /\ tasks' = Remove(tasks, x)
    /\ io' = {}
    /\ UNCHANGED <<activeTab, model, size, tabs, tables, issueDetailViews,
                   cachedAllUsers, status, exec, remote, proc>>

\* IssueList.Update(IncomingIssueMsg), if the issue went to the pane of the
\* active tab
OnIncomingIssueMutActiveTab(x) ==
    /\ ListMode
    /\ Return(tables,
              [issueDetailViews EXCEPT ![activeTab] = PaneSetIssue(@, [key |-> x.key, ver |-> x.ver])],
              activeTab, model, Remove(tasks, x), {})
    /\ UNCHANGED <<size, tabs, cachedAllUsers, status, exec, remote>>

\* IssueList.Update(IncomingIssueMsg)
OnIncomingIssue(x) ==
    /\ ListMode
    /\ Return(tables,
              [issueDetailViews EXCEPT ![x.tab] = PaneSetIssue(@, [key |-> x.key, ver |-> x.ver])],
              activeTab, model, Remove(tasks, x), {})
    /\ UNCHANGED <<size, tabs, cachedAllUsers, status, exec, remote>>

DeliverIssue(x) ==
    /\ x \in tasks /\ x.kind = "fetch" /\ x.pc = "send"
    /\ OnIncomingIssue(x) \/ Dropped(x)

\* IssueList.Update(IncomingIssueListMsg)
OnIncomingIssueList(x) ==
    /\ ListMode
    /\ LET old == tables[x.tab]
           new == IF x.own THEN old
                  ELSE [SetIssueData(old, x.issues) EXCEPT !.loaded = x.loaded]
           len == Len(new.allIssues)
           rest == IF x.own THEN Remove(tasks, x) ELSE DetachSlice(Remove(tasks, x), x.tab, old)
       IN  Return([tables EXCEPT ![x.tab] = new], issueDetailViews, activeTab, model,
                  IF len > 0 THEN GetIssueAsync(rest, new, x.tab, 0) ELSE rest, {})
    /\ UNCHANGED <<size, tabs, cachedAllUsers, status, exec, remote>>

DeliverList(x) ==
    /\ x \in tasks /\ x.kind \in {"list", "relist"} /\ x.pc = "send"
    /\ OnIncomingIssueList(x) \/ Dropped(x)

----------------------------------------------------------------------------
(* Refreshing after a change *)

\* Table.GetIssueSync: the issue under the cursor, from the cache or, in the
\* handler itself, from the remote service; a failed request panics
GetIssueSync(t, shift, r, ok) ==
    LET key == getKeyUnderCursorWithShift(t, shift)
    IN  IF CacheHas(t.issueCache, key)
        THEN [panics |-> FALSE, calls |-> {}, table |-> t, iss |-> CacheGet(t.issueCache, key)]
        ELSE IF ok /\ RemoteHas(key)
        THEN [panics |-> FALSE, calls |-> {"ProxyGetIssue"},
              table |-> [t EXCEPT !.issueCache = CachePut(@, RemoteIssue(r, key))],
              iss |-> RemoteIssue(r, key)]
        ELSE [panics |-> TRUE, calls |-> {"ProxyGetIssue"}, table |-> t, iss |-> NilIssue]

\* allIssues[i] = newIssue for every row with the key of newIssue
ReplaceRows(rows, iss) ==
    [i \in 1 .. Len(rows) |-> IF rows[i].key = iss.key THEN iss ELSE rows[i]]

\* IssueList.reinitOnlyOneIssue, what it does to the table: the cache entry
\* goes and the row is replaced in the array of allIssues (which
\* filteredIssues shares after filterTableData(""))
RefreshRow(t, iss) ==
    [t EXCEPT !.issueCache = CacheDelete(@, iss.key),
              !.allIssues = ReplaceRows(@, iss),
              !.filteredIssues = IF t.aliased THEN ReplaceRows(@, iss) ELSE @]

\* IssueList.reinitOnlyOneIssue: ProxyGetIssue in the handler (a failure
\* panics), then the command that sends the table's own allIssues back
reinitOnlyOneIssue(tb, ts, index, key, r, ok, ios) ==
    IF ok /\ RemoteHas(key)
    THEN Return([tb EXCEPT ![index] = RefreshRow(@, RemoteIssue(r, key))],
                issueDetailViews, activeTab, ListModel,
                Spawn(ts, "relist", index, key, "start"), ios \cup {"ProxyGetIssue"})
    ELSE /\ proc' = "panic_loop"
         /\ io' = ios \cup {"ProxyGetIssue"}
         /\ tables' = tb
         /\ UNCHANGED <<activeTab, model, issueDetailViews, tasks>>

\* the command of reinitOnlyOneIssue reads l.tables[index].allIssues when it runs
RelistRun(x) ==
    /\ TaskAt(x, "relist", "start")
    /\ tasks' = Step(tasks, x, [x EXCEPT !.pc = "send", !.own = TRUE])
    /\ UNCHANGED <<tabs, tables, issueDetailViews, remote, proc>>
    /\ BackgroundFrame

\* IssueList.reinitTable: a new Table in the place of the old one, sized if
\* the controller has a size, and the command that loads its issues
reinitTable(ts, index) ==
    Return([tables EXCEPT ![index] = IF size.tableHeight # 0
                                      THEN TableResize(NewTable, size.tableHeight)
                                      ELSE NewTable],
           issueDetailViews, activeTab, ListModel,
           Spawn(DetachTable(ts, index, tables[index]), "list", index, "", "start"), {})

\* NewErrorModel(l, ..., l.rawWidth, l.rawHeight)
ErrorModel == [kind |-> "error", selectorType |-> "none", height |-> size.rawHeight,
               parent |-> "list"]

\* processError without the overlay: every error is followed by a reload
processErrorMutAlwaysReload(x) ==
    reinitTable(Remove(tasks, x), activeTab)

\* IssueList.processError
processError(x) ==
    IF x.err # "none" /\ x.err # "interrupt"
    THEN Return(tables, issueDetailViews, activeTab, ErrorModel, Remove(tasks, x), {})
    ELSE reinitTable(Remove(tasks, x), activeTab)

----------------------------------------------------------------------------
(* Subprocess flows: edit, move, comment *)

\* IssueList.Update(tea.KeyMsg) "e", "m", "c": GetIssueSync(0), then
\* execCommandWithStderr, which the runtime runs with the loop suspended
KeyExec(what, ok) ==
    /\ ListMode
    /\ Room
    /\ tables[activeTab].SorterState # SorterFiltering
    /\ LET g == GetIssueSync(tables[activeTab], 0, remote, ok)
       IN  IF g.panics
           THEN Dies("panic_loop", g.calls)
           ELSE /\ exec' = [kind |-> "exec", what |-> what, key |-> g.iss.key, msgKey |-> g.iss.key]
                /\ Return([tables EXCEPT ![activeTab] = g.table], issueDetailViews,
                          activeTab, model, tasks, g.calls)
                /\ UNCHANGED <<size, tabs, cachedAllUsers, status, remote>>

\* the subprocess ends: with success (the issue has changed on the remote
\* service), with a failure, or because the user interrupted it
ExecFinish(outcome) ==
    /\ proc = "running"
    /\ exec # NoTask
    /\ remote' = IF outcome = "none" THEN RemoteMutate(remote, exec.key) ELSE remote
    /\ tasks' = Add(tasks, [Task("done", 0, exec.msgKey, "send")
                                EXCEPT !.err = outcome, !.what = exec.what, !.about = exec.key])
    /\ exec' = NoTask
    /\ io' = {}
    /\ UNCHANGED <<activeTab, model, size, tabs, tables, issueDetailViews,
                   cachedAllUsers, status, proc>>

\* IssueList.Update(IssueEditedMsg / IssueMovedMsg / IssueAssignedToEpicMsg)
OnDone(x, ok) ==
    /\ ListMode
    /\ IF x.err # "none"
       THEN processError(x)
       ELSE reinitOnlyOneIssue(tables, Remove(tasks, x), activeTab, x.key, remote, ok, {})
    /\ UNCHANGED <<size, tabs, cachedAllUsers, status, exec, remote>>

DeliverDone(x, ok) ==
    /\ x \in tasks /\ x.kind = "done" /\ x.pc = "send"
    /\ OnDone(x, ok) \/ Dropped(x)

----------------------------------------------------------------------------
(* Error overlay *)

\* ErrorModel.Update(tea.KeyMsg) "enter", "esc", "q": back to the parent, and
\* a command that sends the stored size as a tea.WindowSizeMsg
ErrorClose ==
    /\ LoopReady
    /\ Room
    /\ model.kind = "error"
    /\ Return(tables, issueDetailViews, activeTab, ListModel,
              Add(tasks, [Task("winsize", 0, "", "send") EXCEPT !.height = model.height]), {})
    /\ UNCHANGED <<size, tabs, cachedAllUsers, status, exec, remote>>

\* ErrorModel.Update(tea.WindowSizeMsg): the overlay keeps the size
ErrorResize(x) ==
    /\ LoopReady
    /\ model.kind = "error"
    /\ model' = [model EXCEPT !.height = x.height]
    /\ tasks' = Remove(tasks, x)
    /\ io' = {}
    /\ UNCHANGED <<activeTab, size, tabs, tables, issueDetailViews,
                   cachedAllUsers, status, exec, remote, proc>>

\* NewHelpView(l, l.rawWidth, l.rawHeight)
HelpModel == [kind |-> "help", selectorType |-> "none", height |-> size.rawHeight,
              parent |-> "list"]

\* IssueList.Update(tea.KeyMsg) "?"
KeyHelp ==
    /\ ListMode
    /\ tables[activeTab].SorterState # SorterFiltering
    /\ Return(tables, issueDetailViews, activeTab, HelpModel, tasks, {})
    /\ UNCHANGED <<size, tabs, cachedAllUsers, status, exec, remote>>

\* HelpView.Update(tea.KeyMsg) "?", "esc", "q", "ctrl+c": back to the previous
\* model, and a command that sends the stored size as a tea.WindowSizeMsg
HelpClose ==
    /\ LoopReady
    /\ Room
    /\ model.kind = "help"
    /\ Return(tables, issueDetailViews, activeTab, ListModel,
              Add(tasks, [Task("winsize", 0, "", "send") EXCEPT !.height = model.height]), {})
    /\ UNCHANGED <<size, tabs, cachedAllUsers, status, exec, remote>>

\* Update(tea.WindowSizeMsg) of the model that is driven in place of the
\* controller: ErrorModel and HelpView store the size; FuzzySelector has a
\* case for WidgetSizeMsg only, and hands any other message to its list
ModalOnWindowSize(m, h) ==
    IF m.kind \in {"error", "help"} THEN [m EXCEPT !.height = h] ELSE m

\* HelpView.Update(tea.WindowSizeMsg) for the message of a closed overlay
HelpResize(x) ==
    /\ LoopReady
    /\ model.kind = "help"
    /\ model' = ModalOnWindowSize(model, x.height)
    /\ tasks' = Remove(tasks, x)
    /\ io' = {}
    /\ UNCHANGED <<activeTab, size, tabs, tables, issueDetailViews,
                   cachedAllUsers, status, exec, remote, proc>>

\* the terminal reports its size while a fuzzy selector, the help or the
\* error overlay is driven: the runtime hands the message to that model
ModalWindowSize(h) ==
    /\ LoopReady
    /\ model.kind # "list"
    /\ model' = ModalOnWindowSize(model, h)
    /\ io' = {}
    /\ UNCHANGED <<activeTab, size, tabs, tables, issueDetailViews,
                   cachedAllUsers, status, tasks, exec, remote, proc>>

DeliverWinSize(x) ==
    /\ x \in tasks /\ x.kind = "winsize" /\ x.pc = "send"
    /\ \/ ListMode /\ OnWindowSize(x.height, Remove(tasks, x))
       \/ ErrorResize(x)
       \/ HelpResize(x)
       \/ model.kind = "fuzzy" /\ Dropped(x)

----------------------------------------------------------------------------
(* Tabs and reload *)

\* IssueList.Update(tea.KeyMsg) "right" and "left", if the index moved by
\* two tabs
KeyTabMutSkipsOne(delta) ==
    /\ ListMode
    /\ tables[activeTab].SorterState # SorterFiltering
    /\ NTabs > 1
    /\ Return(tables, issueDetailViews, (activeTab + 2 * delta + NTabs) % NTabs,
              model, tasks, {})
    /\ UNCHANGED <<size, tabs, cachedAllUsers, status, exec, remote>>

\* IssueList.Update(tea.KeyMsg) "right"/"l" (delta 1) and "left"/"h" (delta -1)
KeyTab(delta) ==
    /\ ListMode
    /\ tables[activeTab].SorterState # SorterFiltering
    /\ NTabs > 1
    /\ Return(tables, issueDetailViews, (activeTab + delta + NTabs) % NTabs, model, tasks, {})
    /\ UNCHANGED <<size, tabs, cachedAllUsers, status, exec, remote>>

KeyRight == KeyTab(1)
KeyLeft == KeyTab(-1)

\* the list commands of tab idx that are pending when another reload of the
\* tab is requested: the program keeps no record of it; the mark (orphan) is
\* read by no handler and only tells the requests apart
Supersede(ts, idx) ==
    AddAll({}, {IF x.kind = "list" /\ x.tab = idx THEN [x EXCEPT !.orphan = TRUE] ELSE x
                : x \in ts})

\* IssueList.Update(tea.KeyMsg) "ctrl+r"
KeyReload ==
    /\ ListMode
    /\ Room
    /\ tables[activeTab].SorterState # SorterFiltering
    /\ reinitTable(Supersede(tasks, activeTab), activeTab)
    /\ UNCHANGED <<size, tabs, cachedAllUsers, status, exec, remote>>

----------------------------------------------------------------------------
(* Backlog toggle *)

\* BoardStateResolver.IsOnBoard
IsOnBoard(res, k) == k \notin res.backlog

\* BoardStateResolver.SetBacklogState
SetBacklogState(res, k, inBacklog) ==
    [res EXCEPT !.backlog = IF inBacklog THEN @ \cup {k} ELSE @ \ {k}]

\* IssueList.Update(tea.KeyMsg) "b": GetIssueSync(0) and the toggle command
KeyToggle(ok) ==
    /\ ListMode
    /\ Room
    /\ tables[activeTab].SorterState # SorterFiltering
    /\ LET g == GetIssueSync(tables[activeTab], 0, remote, ok)
       IN  IF g.panics
           THEN Dies("panic_loop", g.calls)
           ELSE /\ Return([tables EXCEPT ![activeTab] = g.table], issueDetailViews,
                          activeTab, model, Spawn(tasks, "toggle", activeTab, g.iss.key, "start"),
                          g.calls)
                /\ UNCHANGED <<size, tabs, cachedAllUsers, status, exec, remote>>

\* the toggle command without its SetBacklogState
ToggleRunMutNoLocalUpdate(x, ok) ==
    /\ TaskAt(x, "toggle", "start")
    /\ LET cfg == tabs[activeTab]
           res == cfg.BoardStateResolver
           toBacklog == IsOnBoard(res, x.key)
       IN  IF cfg.BoardId = 0 \/ ~res.present \/ ~ok
           THEN /\ tasks' = Step(tasks, x, [x EXCEPT !.pc = "send", !.err = "error"])
                /\ UNCHANGED <<tabs, remote>>
           ELSE /\ tasks' = Step(tasks, x, [x EXCEPT !.pc = "send",
                                                  !.what = IF toBacklog THEN "InBacklog" ELSE "OnBoard"])
                /\ remote' = [remote EXCEPT !.backlog = IF toBacklog THEN @ \cup {x.key}
                                                         ELSE @ \ {x.key}]
                /\ tabs' = tabs
    /\ UNCHANGED <<tables, issueDetailViews, proc>>
    /\ BackgroundFrame

\* the toggle command, if it set the state in the resolver before the move
\* and did not take it back when the move failed
ToggleRunMutUpdatesOnFailure(x, ok) ==
    /\ TaskAt(x, "toggle", "start")
    /\ LET cfg == tabs[activeTab]
           res == cfg.BoardStateResolver
           toBacklog == IsOnBoard(res, x.key)
       IN  IF cfg.BoardId = 0 \/ ~res.present
           THEN /\ tasks' = Step(tasks, x, [x EXCEPT !.pc = "send", !.err = "error"])
                /\ UNCHANGED <<tabs, remote>>
           ELSE /\ tasks' = Step(tasks, x, [x EXCEPT !.pc = "send",
                                                  !.err = IF ok THEN "none" ELSE "error",
                                                  !.what = IF ~ok THEN "none"
                                                           ELSE IF toBacklog THEN "InBacklog"
                                                           ELSE "OnBoard"])
                /\ remote' = IF ~ok THEN remote
                             ELSE [remote EXCEPT !.backlog = IF toBacklog THEN @ \cup {x.key}
                                                             ELSE @ \ {x.key}]
                /\ tabs' = [tabs EXCEPT ![activeTab].BoardStateResolver =
                                SetBacklogState(res, x.key, toBacklog)]
    /\ UNCHANGED <<tables, issueDetailViews, proc>>
    /\ BackgroundFrame

\* the command of toggleBacklogState with exp.ToggleIssueBacklogState: it
\* takes the TabConfig of the tab that is active when it runs, moves the
\* issue on the remote service and then sets the state in the resolver
ToggleRun(x, ok) ==
    /\ TaskAt(x, "toggle", "start")
    /\ LET cfg == tabs[activeTab]
           res == cfg.BoardStateResolver
           toBacklog == IsOnBoard(res, x.key)
       IN  IF cfg.BoardId = 0 \/ ~res.present \/ ~ok
           THEN /\ tasks' = Step(tasks, x, [x EXCEPT !.pc = "send", !.err = "error"])
                /\ UNCHANGED <<tabs, remote>>
           ELSE /\ tasks' = Step(tasks, x, [x EXCEPT !.pc = "send",
                                                  !.what = IF toBacklog THEN "InBacklog" ELSE "OnBoard"])
                /\ remote' = [remote EXCEPT !.backlog = IF toBacklog THEN @ \cup {x.key}
                                                         ELSE @ \ {x.key}]
                /\ tabs' = [tabs EXCEPT ![activeTab].BoardStateResolver =
                                SetBacklogState(res, x.key, toBacklog)]
    /\ UNCHANGED <<tables, issueDetailViews, proc>>
    /\ BackgroundFrame

\* IssueList.Update(IssueBacklogToggleMsg)
DeliverToggle(x, ok) ==
    /\ x \in tasks /\ x.kind = "toggle" /\ x.pc = "send"
    /\ OnDone(x, ok) \/ Dropped(x)

\* no toggle command is in flight
NoTogglePending == \A x \in tasks : x.kind # "toggle"

----------------------------------------------------------------------------
(* Assigning a user or an epic through the fuzzy selector *)

\* NewFuzzySelectorFrom(l, l.rawWidth, l.rawHeight, items, type)
FuzzyModel(type) == [kind |-> "fuzzy", selectorType |-> type, height |-> size.rawHeight,
                     parent |-> "list"]

\* IssueList.Update(tea.KeyMsg) "a": GetIssueSync(0), the assignable users
\* (asked for once and kept), then the selector
KeyAssign(okIssue, okUsers) ==
    /\ ListMode
    /\ tables[activeTab].SorterState # SorterFiltering
    /\ LET g == GetIssueSync(tables[activeTab], 0, remote, okIssue)
           calls == g.calls \cup (IF cachedAllUsers THEN {} ELSE {"GetAssignableToIssue"})
       IN  IF g.panics
           THEN Dies("panic_loop", g.calls)
           ELSE /\ cachedAllUsers' = (cachedAllUsers \/ okUsers)
                /\ Return([tables EXCEPT ![activeTab] = g.table], issueDetailViews, activeTab,
                          IF cachedAllUsers \/ okUsers THEN FuzzyModel("user") ELSE ErrorModel,
                          tasks, calls)
                /\ UNCHANGED <<size, tabs, status, exec, remote>>

\* IssueList.Update(tea.KeyMsg) "ctrl+p": FetchEpics in the handler (a
\* failed search ends the process), then the selector
KeyEpic(ok) ==
    /\ ListMode
    /\ tables[activeTab].SorterState # SorterFiltering
    /\ IF ok
       THEN /\ Return(tables, issueDetailViews, activeTab, FuzzyModel("epic"), tasks, {"FetchEpics"})
            /\ UNCHANGED <<size, tabs, cachedAllUsers, status, exec, remote>>
       ELSE Dies("exit_loop", {"FetchEpics"})

\* FuzzySelector.Update(tea.KeyMsg) "ctrl+c", "q", "esc"
FuzzyCancel ==
    /\ LoopReady
    /\ model.kind = "fuzzy"
    /\ Return(tables, issueDetailViews, activeTab, ListModel, tasks, {})
    /\ UNCHANGED <<size, tabs, cachedAllUsers, status, exec, remote>>

\* FuzzySelector.Update(tea.KeyMsg) "enter" on an item: back to the
\* controller, and a command that sends FuzzySelectorResultMsg
FuzzyEnter ==
    /\ LoopReady
    /\ Room
    /\ model.kind = "fuzzy"
    /\ Return(tables, issueDetailViews, activeTab, ListModel,
              Add(tasks, [Task("fuzzy", 0, "", "send") EXCEPT !.what = model.selectorType]), {})
    /\ UNCHANGED <<size, tabs, cachedAllUsers, status, exec, remote>>

\* IssueList.Update(FuzzySelectorResultMsg) for FuzzySelectorUser:
\* GetIssueSync(0), assignToUser in the handler (a failure ends the process
\* in cmdutil.ExitIfError), reinitOnlyOneIssue
OnUserPicked(x, okIssue, okAssign, okRefresh) ==
    /\ ListMode
    /\ x.what = "user"
    /\ LET g == GetIssueSync(tables[activeTab], 0, remote, okIssue)
           after == RemoteMutate(remote, g.iss.key)
       IN  IF g.panics
           THEN Dies("panic_loop", g.calls)
           ELSE IF ~okAssign
           THEN Dies("exit_loop", g.calls \cup {"AssignIssue"})
           ELSE /\ remote' = after
                /\ reinitOnlyOneIssue([tables EXCEPT ![activeTab] = g.table], Remove(tasks, x),
                                      activeTab, g.iss.key, after, okRefresh,
                                      g.calls \cup {"AssignIssue"})
                /\ UNCHANGED <<size, tabs, cachedAllUsers, status, exec>>

\* IssueList.Update(FuzzySelectorResultMsg) for FuzzySelectorEpic:
\* GetIssueSync(0) and assignToEpic, whose IssueAssignedToEpicMsg is made
\* without an issue key
OnEpicPicked(x, okIssue) ==
    /\ ListMode
    /\ x.what = "epic"
    /\ LET g == GetIssueSync(tables[activeTab], 0, remote, okIssue)
       IN  IF g.panics
           THEN Dies("panic_loop", g.calls)
           ELSE /\ exec' = [kind |-> "exec", what |-> "epic", key |-> g.iss.key, msgKey |-> ""]
                /\ Return([tables EXCEPT ![activeTab] = g.table], issueDetailViews,
                          activeTab, model, Remove(tasks, x), g.calls)
                /\ UNCHANGED <<size, tabs, cachedAllUsers, status, remote>>

DeliverFuzzy(x, okIssue, okAssign, okRefresh) ==
    /\ x \in tasks /\ x.kind = "fuzzy" /\ x.pc = "send"
    /\ \/ OnUserPicked(x, okIssue, okAssign, okRefresh)
       \/ OnEpicPicked(x, okIssue)
       \/ Dropped(x)

----------------------------------------------------------------------------
(* Filter keys *)

\* characters typed into the filter
FilterChars == {"a", "B"}

\* Table.Update(tea.KeyMsg) "/" outside Filtering
TableSlash(t) ==
    filterTableData([t EXCEPT !.viewportHeight = @ - sorterHeight,
                              !.sorterText = <<>>,
                              !.SorterState = SorterFiltering], <<>>)

\* Table.Update(tea.KeyMsg) in Filtering, default case, if the key were not
\* taken as text
TableFilterCharMutDropsKey(t, c) ==
    LET u == filterTableData(t, t.sorterText)
    IN  IF Len(u.filteredIssues) > 0 THEN [u EXCEPT !.cursor = 0] ELSE u

\* Table.Update(tea.KeyMsg) in Filtering, default case: the key is appended
TableFilterChar(t, c) ==
    LET u == filterTableData([t EXCEPT !.sorterText = Append(@, c)], Append(t.sorterText, c))
    IN  IF Len(u.filteredIssues) > 0 THEN [u EXCEPT !.cursor = 0] ELSE u

\* Table.Update(tea.KeyMsg) in Filtering, "backspace"
TableFilterBackspace(t) ==
    LET text == IF Len(t.sorterText) > 0 THEN SubSeq(t.sorterText, 1, Len(t.sorterText) - 1)
                ELSE t.sorterText
    IN  filterTableData([t EXCEPT !.sorterText = text], text)

\* Table.Update(tea.KeyMsg) in Filtering, "enter"
TableFilterEnter(t) ==
    [filterTableData([t EXCEPT !.SorterState = SorterActive], t.sorterText)
        EXCEPT !.viewportHeight = @ + sorterHeight]

\* Table.Update(tea.KeyMsg) in Filtering, "esc" / "ctrl+c", if it kept the
\* filtered subset in force
TableFilterEscMutKeepsSubset(t) ==
    [t EXCEPT !.SorterState = SorterActive, !.viewportHeight = @ + sorterHeight]

\* Table.Update(tea.KeyMsg) in Filtering, "esc" / "ctrl+c"
TableFilterEsc(t) ==
    [t EXCEPT !.SorterState = SorterInactive, !.viewportHeight = @ + sorterHeight]

\* IssueList.Update(tea.KeyMsg) "/" outside Filtering: forwarded to the table
KeySlash ==
    /\ ListMode
    /\ tables[activeTab].SorterState # SorterFiltering
    /\ Return([tables EXCEPT ![activeTab] = TableSlash(@)], issueDetailViews,
              activeTab, model, tasks, {})
    /\ UNCHANGED <<size, tabs, cachedAllUsers, status, exec, remote>>

\* IssueList.Update(tea.KeyMsg) while the table is Filtering: the key goes
\* to the table, then GetIssueAsync(activeTab, 0)
FilterKey(u) ==
    /\ ListMode
    /\ Room
    /\ tables[activeTab].SorterState = SorterFiltering
    /\ Return([tables EXCEPT ![activeTab] = u], issueDetailViews, activeTab, model,
              GetIssueAsync(tasks, u, activeTab, 0), {})
    /\ UNCHANGED <<size, tabs, cachedAllUsers, status, exec, remote>>

FilterChar(c) ==
    /\ Len(tables[activeTab].sorterText) < MaxQuery
    /\ FilterKey(TableFilterChar(tables[activeTab], c))

FilterBackspace == FilterKey(TableFilterBackspace(tables[activeTab]))
FilterEnter == FilterKey(TableFilterEnter(tables[activeTab]))
FilterEsc == FilterKey(TableFilterEsc(tables[activeTab]))

\* Table.Update(tea.KeyMsg) "esc" outside Filtering: no case of the table takes
\* the key, which goes on to the inner table, where no binding takes it
TableEsc(t) == t

\* IssueList.Update(tea.KeyMsg) "esc" while the filter of the table is Active:
\* forwarded to the table, and the handler returns
KeyEscActive ==
    /\ ListMode
    /\ tables[activeTab].SorterState = SorterActive
    /\ Return([tables EXCEPT ![activeTab] = TableEsc(@)], issueDetailViews,
              activeTab, model, tasks, {})
    /\ UNCHANGED <<size, tabs, cachedAllUsers, status, exec, remote>>

----------------------------------------------------------------------------
(* Scrolling the detail pane *)

\* IssueList.Update(tea.KeyMsg) "ctrl+e": IssueModel.scrollDown, which
\* renders the issue first and dereferences Data for that
KeyScrollDown ==
    /\ ListMode
    /\ tables[activeTab].SorterState # SorterFiltering
    /\ IF issueDetailViews[activeTab].Data = NilIssue
       THEN Dies("panic_loop", {})
       ELSE /\ Return(tables, [issueDetailViews EXCEPT ![activeTab] = scrollDown(@)],
                      activeTab, model, tasks, {})
            /\ UNCHANGED <<size, tabs, cachedAllUsers, status, exec, remote>>

\* IssueList.Update(tea.KeyMsg) "ctrl+y": IssueModel.scrollUp
KeyScrollUp ==
    /\ ListMode
    /\ tables[activeTab].SorterState # SorterFiltering
    /\ Return(tables, [issueDetailViews EXCEPT ![activeTab] = scrollUp(@)],
              activeTab, model, tasks, {})
    /\ UNCHANGED <<size, tabs, cachedAllUsers, status, exec, remote>>

\* IssueList.Update(tea.KeyMsg) "tab": IssueModel.Update selects the next link;
\* a loop that never ends leaves the dispatch loop inside this handler
KeyCycleLink ==
    /\ ListMode
    /\ tables[activeTab].SorterState # SorterFiltering
    /\ LET r == cycleLink(issueDetailViews[activeTab])
       IN  IF r.end = "panic" THEN Dies("panic_loop", {})
           ELSE IF r.end = "hang" THEN Dies("hang_loop", {})
           ELSE /\ Return(tables, [issueDetailViews EXCEPT ![activeTab] = r.d],
                          activeTab, model, tasks, {})
                /\ UNCHANGED <<size, tabs, cachedAllUsers, status, exec, remote>>

----------------------------------------------------------------------------
(* The prefetch of the list of viewBubble: IssueList.Init starts one        *)
(* prefetchTopIssues goroutine, which starts one goroutine per row           *)

\* the value of bubble.list.prefetch_from_top
PrefetchFromTop == 4

\* the rows of the list (l.Data) when Init runs
PrefetchData == <<"A", "B", "C", "D", "E">>

\* the capacity of the channel sem
concurrencyLimit == 3

\* the goroutines that have sent to sem and not yet received from it
SlotsHeld(ts) == Cardinality({y \in ts : y.kind = "prefetchOne" /\ y.pc \in {"fetch", "write"}})

\* the goroutines inside api.ProxyGetIssue
InFlight(ts) == Cardinality({y \in ts : y.kind = "prefetchOne" /\ y.pc = "fetch"})

\* the record of prefetchTopIssues holds l.DetailedCache in cached and the
\* rows its loop has still to look at in issues
InitPrefetch ==
    /\ activeTab = 0
    /\ model = ListModel
    /\ size = [rawHeight |-> 0, tableHeight |-> 0, previewHeight |-> 0]
    /\ tabs = [t \in TabsOf(1) |-> [BoardId |-> BoardIdOf(t), BoardStateResolver |-> NilResolver]]
    /\ tables = [t \in TabsOf(1) |-> NewTable]
    /\ issueDetailViews = [t \in TabsOf(1) |-> PaneResize(NewIssueModel, 0)]
    /\ cachedAllUsers = FALSE
    /\ status = NoStatus
    /\ \E c \in {{}, {[key |-> "B", ver |-> 0]}} :
          tasks = {[Task("prefetch", 0, "", "start") EXCEPT !.issues = PrefetchData, !.cached = c]}
    /\ exec = NoTask
    /\ remote = [ver |-> [k \in IssueKeys |-> 0], backlog |-> {"B"}]
    /\ proc = "running"
    /\ io = {}

PrefetchFrame == UNCHANGED <<tabs, tables, issueDetailViews, remote>> /\ BackgroundFrame

\* prefetchTopIssues up to its loop: nothing to do for an empty list or a
\* count that is not positive, else the first maxPrefetch rows are looked at
prefetchTopIssues(x) ==
    /\ TaskAt(x, "prefetch", "start")
    /\ tasks' = IF Len(x.issues) = 0 \/ PrefetchFromTop <= 0
                THEN Step(tasks, x, [x EXCEPT !.pc = "done"])
                ELSE LET maxPrefetch == Min(PrefetchFromTop, Len(x.issues))
                     IN  Step(tasks, x, [x EXCEPT !.pc = "loop",
                                                  !.issues = SubSeq(@, 1, maxPrefetch)])
    /\ UNCHANGED proc
    /\ PrefetchFrame

\* one turn of the loop: a row that is cached is skipped, any other gets a
\* goroutine, which first has to send to sem; after the last row wg.Wait
PrefetchLoop(x) ==
    /\ TaskAt(x, "prefetch", "loop")
    /\ tasks' = IF x.issues = <<>>
                THEN Step(tasks, x, [x EXCEPT !.pc = "wait"])
                ELSE LET key == Head(x.issues)
                         rest == Step(tasks, x, [x EXCEPT !.issues = Tail(@)])
                     IN  IF CacheHas(x.cached, key) THEN rest
                         ELSE Spawn(rest, "prefetchOne", 0, key, "acquire")
    /\ UNCHANGED proc
    /\ PrefetchFrame

\* sem <- struct{}{}: blocks while the channel is full
PrefetchAcquireMutNoSemaphore(y) ==
    /\ TaskAt(y, "prefetchOne", "acquire")
    /\ tasks' = Step(tasks, y, [y EXCEPT !.pc = "fetch"])
    /\ UNCHANGED proc
    /\ PrefetchFrame

PrefetchAcquire(y) ==
    /\ TaskAt(y, "prefetchOne", "acquire")
    /\ SlotsHeld(tasks) < concurrencyLimit
    /\ tasks' = Step(tasks, y, [y EXCEPT !.pc = "fetch"])
    /\ UNCHANGED proc
    /\ PrefetchFrame

\* api.ProxyGetIssue returns: a failure is logged and the goroutine ends,
\* which gives the slot back
PrefetchFetch(y, ok) ==
    /\ TaskAt(y, "prefetchOne", "fetch")
    /\ tasks' = IF ok THEN Step(tasks, y, [y EXCEPT !.pc = "write"]) ELSE Remove(tasks, y)
    /\ UNCHANGED proc
    /\ PrefetchFrame

\* l.DetailedCache[issueKey] = detailedIssue, then the slot is given back
PrefetchWrite(y) ==
    /\ TaskAt(y, "prefetchOne", "write")
    /\ \E x \in tasks :
          /\ x.kind = "prefetch"
          /\ tasks' = Step(Remove(tasks, y), x,
                           [x EXCEPT !.cached = CachePut(@, [key |-> y.key, ver |-> 0])])
    /\ UNCHANGED proc
    /\ PrefetchFrame

\* the map is written while another goroutine writes it or the loop reads
\* it: the Go runtime may stop the process
PrefetchWriteRace(y) ==
    /\ TaskAt(y, "prefetchOne", "write")
    /\ \E x \in tasks : \/ (x.kind = "prefetch" /\ x.pc = "loop")
                         \/ (x.kind = "prefetchOne" /\ x.pc = "write" /\ x # y)
    /\ proc' = "fatal_map"
    /\ UNCHANGED tasks
    /\ PrefetchFrame

\* wg.Wait returns when every goroutine has ended
PrefetchWait(x) ==
    /\ TaskAt(x, "prefetch", "wait")
    /\ \A y \in tasks : y.kind # "prefetchOne"
    /\ tasks' = Step(tasks, x, [x EXCEPT !.pc = "done"])
    /\ UNCHANGED proc
    /\ PrefetchFrame

----------------------------------------------------------------------------
(* The filter Collection of pkg/jira/filter, as its tests and its caller    *)
(* Client.GetIssue use it: a sequence of filters, each with a key and a     *)
(* value; the value of a NumCommentsFilter is a uint                        *)

MaxFilters == 2

KeyIssueNumComments == "num_comments"
FilterKeys == {KeyIssueNumComments, "other"}
LookupKeys == FilterKeys \cup {"unknown"}
FilterVals == {0, 5, 10}

NilVal == [type |-> "nil", v |-> 0]

\* issue.NewNumCommentsFilter and its like
NewFilter(key, n) == [key |-> key, val |-> [type |-> "uint", v |-> n]]

Filters == {NewFilter(k, n) : k \in FilterKeys, n \in FilterVals}

Collections == UNION {[1 .. len -> Filters] : len \in 0 .. MaxFilters}

\* Collection.Get: the value of the first filter that has the key, else nil
CollectionGetMutFirstFilter(c, key) ==
    IF c # <<>> THEN c[1].val ELSE NilVal

CollectionGet(c, key) ==
    IF \E i \in DOMAIN c : c[i].key = key
    THEN c[CHOOSE i \in DOMAIN c : c[i].key = key /\ \A j \in 1 .. (i - 1) : c[j].key # key].val
    ELSE NilVal

\* Collection.GetInt: the value as an int, 0 for nil
CollectionGetInt(c, key) ==
    LET val == CollectionGet(c, key)
    IN  IF val.type = "uint" THEN [type |-> "int", v |-> val.v] ELSE [type |-> "int", v |-> 0]

\* a lookup that has not been made yet
Lookup(c, key) == [n |-> 1, kind |-> "lookup", pc |-> "start", cltn |-> c, key |-> key, result |-> NilVal]

InitLookup ==
    /\ activeTab = 0
    /\ model = ListModel
    /\ size = [rawHeight |-> 0, tableHeight |-> 0, previewHeight |-> 0]
    /\ tabs = [t \in TabsOf(1) |-> [BoardId |-> BoardIdOf(t), BoardStateResolver |-> NilResolver]]
    /\ tables = [t \in TabsOf(1) |-> NewTable]
    /\ issueDetailViews = [t \in TabsOf(1) |-> PaneResize(NewIssueModel, 0)]
    /\ cachedAllUsers = FALSE
    /\ status = NoStatus
    /\ \E c \in Collections, key \in LookupKeys : tasks = {Lookup(c, key)}
    /\ exec = NoTask
    /\ remote = [ver |-> [k \in IssueKeys |-> 0], backlog |-> {"B"}]
    /\ proc = "running"
    /\ io = {}

\* cltn.Get(key)
TestCollectionGet(x) ==
    /\ TaskAt(x, "lookup", "start")
    /\ tasks' = {[x EXCEPT !.pc = "Get", !.result = CollectionGet(x.cltn, x.key)]}
    /\ UNCHANGED <<tabs, tables, issueDetailViews, remote, proc>>
    /\ BackgroundFrame

\* cltn.GetInt(key)
TestCollectionGetInt(x) ==
    /\ TaskAt(x, "lookup", "start")
    /\ tasks' = {[x EXCEPT !.pc = "GetInt", !.result = CollectionGetInt(x.cltn, x.key)]}
    /\ UNCHANGED <<tabs, tables, issueDetailViews, remote, proc>>
    /\ BackgroundFrame

----------------------------------------------------------------------------
(* The status line *)

\* the time the model follows, in half seconds
MaxTime == 4

\* time.Second in half seconds
Second == 2

\* IssueList.setStatusMessage: the message, a new time.Timer in the place of
\* the stopped old one (nothing waits for either), and the tea.Tick command
\* that sends StatusClearMsg a second later; ver of the command is the time
\* it is due
setStatusMessage(message) ==
    [status EXCEPT !.message = message, !.timer = TRUE, !.shownAt = status.now]

StatusTick == [Task("tick", 0, "", "send") EXCEPT !.ver = status.now + Second]

\* IssueList.Update(tea.KeyMsg) "u": the URL of the issue under the cursor
\* goes to the clipboard and into the status message
KeyCopy ==
    /\ ListMode
    /\ Room
    /\ tables[activeTab].SorterState # SorterFiltering
    /\ status' = setStatusMessage([text |-> "copied",
                                   key |-> getKeyUnderCursorWithShift(tables[activeTab], 0)])
    /\ Return(tables, issueDetailViews, activeTab, model, Add(tasks, StatusTick),
              {"copyToClipboard"})
    /\ UNCHANGED <<size, tabs, cachedAllUsers, exec, remote>>

\* IssueList.Update(StatusClearMsg)
OnStatusClear(x) ==
    /\ ListMode
    /\ status' = [status EXCEPT !.message = NoMessage, !.timer = FALSE]
    /\ Return(tables, issueDetailViews, activeTab, model, Remove(tasks, x), {})
    /\ UNCHANGED <<size, tabs, cachedAllUsers, exec, remote>>

\* the runtime hands over the StatusClearMsg of a tick that is due
DeliverStatusClear(x) ==
    /\ x \in tasks /\ x.kind = "tick" /\ x.ver <= status.now
    /\ OnStatusClear(x) \/ Dropped(x)

\* half a second passes; a tick that is due is handed over first
TimePasses ==
    /\ proc = "running"
    /\ status.now < MaxTime
    /\ \A x \in tasks : x.kind = "tick" => x.ver > status.now
    /\ status' = [status EXCEPT !.now = @ + 1]
    /\ UNCHANGED <<activeTab, model, size, tabs, tables, issueDetailViews,
                   cachedAllUsers, tasks, exec, remote, proc, io>>

----------------------------------------------------------------------------
(* Properties *)

\* the key of the row under the cursor of a table
KeyUnderCursor(t) == getKeyUnderCursorWithShift(t, 0)

\* the loop hands the result of GetIssueAsync command x to the controller
IssueArrives(x) == x.kind = "fetch" /\ x.pc = "send" /\ OnIncomingIssue(x)

\* C1: a fetched issue that arrives when the cursor of its tab is on another
\* issue is discarded: the detail pane of that tab stays as it was
C1_StaleResultDiscarded ==
    [][\A x \in tasks :
          (IssueArrives(x) /\ x.key # KeyUnderCursor(tables[x.tab]))
              => issueDetailViews'[x.tab] = issueDetailViews[x.tab]]_vars

\* fetches of tab t are in flight for the row under the cursor and for the
\* row above it, the cursor being at least two rows below the top: two
\* presses have moved the cursor and neither of their fetches has arrived
TwoPressesPending(t) ==
    /\ tables[t].cursor >= 2
    /\ tables[t].cursor < Len(issuePool(tables[t]))
    /\ \E y, z \in tasks :
          /\ y.kind = "fetch" /\ y.tab = t /\ ~y.orphan
          /\ z.kind = "fetch" /\ z.tab = t /\ ~z.orphan
          /\ y.key = issuePool(tables[t])[tables[t].cursor].key
          /\ z.key = KeyUnderCursor(tables[t])
          /\ y.key # z.key

\* C6: when two presses have moved the cursor before either fetch arrived,
\* every detail that is displayed from then on is the one of the issue under
\* the cursor, whichever fetch arrives first
C6_OnlyFinalPositionDisplayed ==
    [][\A x \in tasks :
          (TwoPressesPending(x.tab) /\ IssueArrives(x))
              => issueDetailViews'[x.tab].Data.key = KeyUnderCursor(tables'[x.tab])]_vars

\* the version of issue k in the rows of a table
RowVer(t, k) ==
    IF \E i \in 1 .. Len(t.allIssues) : t.allIssues[i].key = k
    THEN t.allIssues[CHOOSE i \in 1 .. Len(t.allIssues) : t.allIssues[i].key = k].ver
    ELSE 0

\* GetIssueAsync command x finds its issue in the cache of its table
ServedFromCache(x) ==
    /\ x.kind = "fetch" /\ x.pc = "start" /\ ~x.orphan
    /\ CacheHas(tables[x.tab].issueCache, x.key)
    /\ FetchStart(x, TRUE)

\* C2: once the controller has processed the success of a change of an issue
\* (its row then holds the changed issue), a detail read of that issue is
\* never served from the cache with a value older than the change
C2_NoStaleCacheRead ==
    [][\A x \in tasks :
          ServedFromCache(x)
              => CacheGet(tables[x.tab].issueCache, x.key).ver >= RowVer(tables[x.tab], x.key)]_vars

\* a step of a command, taken by its goroutine
BackgroundStep ==
    \/ \E x \in tasks, b1, b2 \in BOOLEAN : ListFetch(x, b1, b2)
    \/ \E x \in tasks, ok \in BOOLEAN : FetchStart(x, ok)
    \/ \E x \in tasks : FetchWrite(x)
    \/ \E x \in tasks : RelistRun(x)
    \/ \E x \in tasks, ok \in BOOLEAN : ToggleRun(x, ok)

\* C3: no step of a command changes state the controller owns: the issue
\* caches, the board-state resolvers, any field of the controller
C3_BackgroundWritesNothing ==
    [][BackgroundStep => UNCHANGED <<activeTab, model, size, tabs, tables,
                                    issueDetailViews, cachedAllUsers>>]_vars

RECURSIVE IsSubsequence(_, _)
IsSubsequence(a, b) ==
    IF a = <<>> THEN TRUE
    ELSE IF b = <<>> THEN FALSE
    ELSE IF Head(a) = Head(b) THEN IsSubsequence(Tail(a), Tail(b))
    ELSE IsSubsequence(a, Tail(b))

\* C4: while a filter is on, the filtered issues are a subsequence of all
\* issues in their order, and with the empty query they are all issues
C4_FilteredIsSubsequence ==
    \A t \in Tabs :
        tables[t].SorterState # SorterInactive
            => /\ IsSubsequence(tables[t].filteredIssues, tables[t].allIssues)
               /\ tables[t].sorterText = <<>> => tables[t].filteredIssues = tables[t].allIssues

\* C5: the first visible line of every detail pane that shows an issue lies
\* between 0 and max(0, total lines - pane height)
C5_ScrollInRange ==
    \A t \in Tabs :
        issueDetailViews[t].Data # NilIssue
            => /\ 0 <= issueDetailViews[t].firstVisibleLine
               /\ issueDetailViews[t].firstVisibleLine <= MaxScroll(issueDetailViews[t])

\* C7: no command panics or ends the process instead of returning a message
C7_CommandsAlwaysAnswer == proc # "panic_cmd" /\ proc # "exit_cmd"

\* C8: a failed network operation never ends the process, neither in a
\* command nor in a handler of the loop
C8_NetworkErrorsNeverTerminate ==
    proc \notin {"panic_loop", "exit_loop", "panic_cmd", "exit_cmd"}

\* C9: the dispatch loop makes no network call and no other blocking call
\* while it processes a message
C9_LoopNeverBlocks == io = {}

\* the loop hands the success of a change made in a subprocess to the
\* controller, and the refresh request that follows is answered
ChangeSucceeded(x) == x.kind = "done" /\ x.pc = "send" /\ x.err = "none" /\ OnDone(x, TRUE)

\* C10: on the success of a change of issue K the controller evicts the
\* cache entry of K and no other, asks for the rows again without building
\* a new table, and keeps running
C10_EvictsOnlyThatIssue ==
    [][\A x \in tasks :
          ChangeSucceeded(x)
              => /\ proc' = "running"
                 /\ tables'[activeTab].issueCache
                        = CacheDelete(tables[activeTab].issueCache, x.about)
                 /\ tables'[activeTab].loaded = tables[activeTab].loaded
                 /\ \E y \in tasks' : y.kind = "relist" /\ y.key = x.about
                 /\ \A t \in Tabs \ {activeTab} : tables'[t] = tables[t]]_vars

\* the loop hands the completion message x of a subprocess to the controller
CompletionArrives(x) == x.kind = "done" /\ x.pc = "send" /\ OnDone(x, TRUE)

C12_InterruptRefreshesLikeSuccess ==
    [][\A x \in tasks :
          (CompletionArrives(x) /\ x.err = "interrupt")
              => /\ model'.kind = "list"
                 /\ tables'[activeTab].loaded = tables[activeTab].loaded
                 /\ tables'[activeTab].allIssues = tables[activeTab].allIssues
                 /\ \E y \in tasks' : y.kind = "relist"]_vars

\* the request of GetIssueAsync command x fails
AsyncFetchFails(x) ==
    /\ x.kind = "fetch" /\ x.pc = "start" /\ ~x.orphan
    /\ ~CacheHas(tables[x.tab].issueCache, x.key)
    /\ FetchStart(x, FALSE)

\* the request of GetIssueSync fails in the handler of "e", "m" or "c"
SyncFetchFails ==
    /\ ~CacheHas(tables[activeTab].issueCache, KeyUnderCursor(tables[activeTab]))
    /\ \E what \in {"edit", "move", "comment"} : KeyExec(what, FALSE)

\* C13: a failed detail fetch leaves the issue cache of every tab as it was
C13_FailedFetchKeepsCache ==
    [][((\E x \in tasks : AsyncFetchFails(x)) \/ SyncFetchFails)
          => \A t \in Tabs : tables'[t].issueCache = tables[t].issueCache]_vars

\* a request of a command has failed while the cache held an issue
C13_Witness ==
    /\ proc = "panic_cmd"
    /\ \E t \in Tabs : tables[t].issueCache # {}

\* the loop hands the success of the toggle that moved x.key to the backlog
\* to the controller
ToggleToBacklogSucceeded(x) ==
    /\ x.kind = "toggle" /\ x.pc = "send" /\ x.err = "none" /\ x.what = "InBacklog"
    /\ OnDone(x, TRUE)

\* C14: once the success of a toggle that moved K from the board to the
\* backlog is processed, IsOnBoard(K) of the tab's resolver is false, and the
\* handler neither replaces the resolver nor starts a command that asks the
\* remote service for the backlog
C14_ToggleIsOptimistic ==
    [][\A x \in tasks :
          ToggleToBacklogSucceeded(x)
              => /\ ~IsOnBoard(tabs'[activeTab].BoardStateResolver, x.key)
                 /\ tabs' = tabs
                 /\ \A y \in tasks' : y.kind = "list" => y \in tasks]_vars

\* issue A, on the board at the start, is in the backlog of the resolver and
\* the success of its toggle has been processed
C14_Witness ==
    /\ "A" \in tabs[0].BoardStateResolver.backlog
    /\ NoTogglePending
    /\ \E y \in tasks : y.kind = "relist" /\ y.key = "A"

\* k consecutive "tab" keys on a detail pane: the pane after the last one, or
\* the step that did not return
RECURSIVE cycleLinks(_, _)
cycleLinks(d, k) ==
    IF k = 0 THEN [end |-> "return", d |-> d, n |-> 0]
    ELSE LET r == cycleLink(d)
         IN  IF r.end # "return" THEN r ELSE cycleLinks(r.d, k - 1)

\* the detail pane the "tab" key goes to
LinkPane == issueDetailViews[activeTab]

\* the "tab" key reaches the detail pane and the pane shows an issue
CanCycle ==
    /\ ListMode
    /\ tables[activeTab].SorterState # SorterFiltering
    /\ LinkPane.Data # NilIssue

\* C15: from "no link selected", nLinks + 1 consecutive cycleLink steps on a
\* pane whose issue has nLinks links end with no link selected (index -1)
\* and the first line on top (firstVisibleLine 0).
C15_FullCycleReturnsToStart ==
    (CanCycle /\ LinkPane.currentlyHighlightedLinkPos = -1)
        => LET r == cycleLinks(LinkPane, LinkPane.nLinks + 1)
           IN  r.end = "return"
                   => /\ r.d.currentlyHighlightedLinkPos = -1
                      /\ r.d.firstVisibleLine = 0

\* the keys have selected the last of several links, after scrolling to it,
\* and the next key is the step past the last link
C15_Witness ==
    /\ CanCycle
    /\ LinkPane.nLinks > 1
    /\ LinkPane.currentlyHighlightedLinkPos = LinkPane.nLinks - 1
    /\ LinkPane.firstVisibleLine > 0
    /\ cycleLink(LinkPane).end = "return"

\* the "tab" key is processed, it selects a next link, and the handler returns
LinkAdvances ==
    /\ KeyCycleLink
    /\ LinkPane.currentlyHighlightedLinkPos # LinkPane.nLinks - 1
    /\ cycleLink(LinkPane).end = "return"

\* the rendered line of the selected link is one of the lines first ..
\* first + contentHeight - 1 and one of the lines the pane shows
LinkInWindow(d) ==
    \E i \in DOMAIN SelectedLink(d) :
        /\ SelectedLink(d)[i].line >= d.firstVisibleLine
        /\ SelectedLink(d)[i].line < d.firstVisibleLine + d.contentHeight
        /\ SelectedLink(d)[i].line \in VisibleLines(d)

C17_LinkLoopTerminates ==
    [][(CanCycle /\ KeyCycleLink)
          => /\ cycleLink(LinkPane).end # "hang"
             /\ proc' # "hang_loop"
             /\ cycleLink(LinkPane).n <= TotalLines(LinkPane)]_vars

\* C18: when the displayed issue has no links (nLinks = 0), cycleLink changes
\* nothing: the link index, the scroll position and every other field of the
\* detail pane stay as they were.
C18_NoLinksNoChange ==
    [][(CanCycle /\ LinkPane.nLinks = 0 /\ KeyCycleLink)
          => issueDetailViews' = issueDetailViews]_vars

\* C19: whenever a detail pane receives a new non-nil issue or its viewport
\* is resized, no link is selected afterwards (index -1).
C19_LinkStateReset ==
    [][/\ \A x \in tasks :
             IssueArrives(x) => issueDetailViews'[x.tab].currentlyHighlightedLinkPos = -1
       /\ (\E h \in WinHeights : WindowSize(h))
             => \A t \in Tabs : issueDetailViews'[t].currentlyHighlightedLinkPos = -1]_vars

\* C20: pressing esc while the filter of a tab is Active moves the filter to
\* Inactive.
C20_EscLeavesActive ==
    (ListMode /\ tables[activeTab].SorterState = SorterActive)
        => TableEsc(tables[activeTab]).SorterState = SorterInactive

\* C21: esc while the filter is Filtering sets the mode to Inactive and makes
\* the shown issues the full issue set again.
C21_CancelRestoresFullSet ==
    [][FilterEsc
          => /\ tables'[activeTab].SorterState = SorterInactive
             /\ issuePool(tables'[activeTab]) = tables[activeTab].allIssues
             /\ tables'[activeTab].allIssues = tables[activeTab].allIssues]_vars

\* a filter that had narrowed the list has been cancelled: only esc leaves a
\* query behind in Inactive mode
C21_Witness ==
    /\ tables[activeTab].SorterState = SorterInactive
    /\ tables[activeTab].sorterText # <<>>
    /\ Len(tables[activeTab].filteredIssues) < Len(tables[activeTab].allIssues)
    /\ issuePool(tables[activeTab]) = tables[activeTab].allIssues

\* C22: while the filter is Filtering a character key is taken as query text
\* and runs no command of the controller (the key "a" opens no selector, and
\* the only command started is the fetch for the pane); in Inactive and
\* Active mode no step appends to the query text.
C22_OnlyFilteringTakesText ==
    [][/\ \A c \in FilterChars :
             FilterChar(c)
                 => /\ tables'[activeTab].sorterText = Append(tables[activeTab].sorterText, c)
                    /\ tables'[activeTab].SorterState = SorterFiltering
                    /\ model' = model /\ activeTab' = activeTab /\ exec' = exec
                    /\ cachedAllUsers' = cachedAllUsers /\ io' = {}
                    /\ \A y \in tasks' : y.kind # "fetch" => y \in tasks
       /\ tables[activeTab].SorterState # SorterFiltering
             => tables'[activeTab].sorterText \in {tables[activeTab].sorterText, <<>>}]_vars

\* the key "a" has been typed into the filter, and the user selector, which
\* "a" opens in the other modes, has never been asked for
C22_Witness ==
    /\ tables[activeTab].SorterState = SorterFiltering
    /\ tables[activeTab].sorterText = <<"a">>
    /\ model.kind = "list"
    /\ ~cachedAllUsers

\* the issues of a sequence
Elems(q) == {q[i] : i \in DOMAIN q}

\* q occurs, ignoring letter case, in the key or in the summary of an issue
OccursIgnoringCase(iss, q) ==
    \/ Contains(ToLower(KeyText(iss.key)), ToLower(q))
    \/ Contains(ToLower(SummaryText(iss.key)), ToLower(q))

\* C23: after a key typed into the filter has left a non-empty query q, an
\* issue of the tab is in the filtered subset exactly when q occurs, ignoring
\* letter case, in its key or in its summary.
C23_FilterMatchesIgnoringCase ==
    [][((\E c \in FilterChars : FilterChar(c)) \/ FilterBackspace)
          => LET t == tables'[activeTab]
             IN  t.sorterText # <<>>
                     => \A iss \in Elems(t.allIssues) :
                            (iss \in Elems(t.filteredIssues))
                                <=> OccursIgnoringCase(iss, t.sorterText)]_vars

\* the loop hands the issue list of command x to the controller
ListArrives(x) == x.kind \in {"list", "relist"} /\ x.pc = "send" /\ OnIncomingIssueList(x)

\* C24: loading an issue list into a tab replaces the tab's full issue set
\* with the given issues, empties the tab's detail cache and sets the filter
\* mode to Inactive.
C24_LoadResetsTable ==
    [][\A x \in tasks :
          ListArrives(x)
              => /\ tables'[x.tab].allIssues
                        = (IF x.own THEN tables[x.tab].allIssues ELSE x.issues)
                 /\ tables'[x.tab].issueCache = {}
                 /\ tables'[x.tab].SorterState = SorterInactive]_vars

ModalCloses == FuzzyCancel \/ HelpClose \/ ErrorClose

\* C26: when a fuzzy selector, help screen or error screen is closed with one
\* of its exit keys, the controller is the driven model again and a window
\* size message with the last size the closed model knew is on its way.
C26_CloseRestoresAndResizes ==
    [][ModalCloses
          => /\ model' = ListModel
             /\ \E y \in tasks' :
                   /\ y.kind = "winsize" /\ y.height = model.height
                   /\ y \notin tasks]_vars

\* C27: a resize event that arrives while a fuzzy selector is open updates
\* the viewport of the selector, whatever the size reported, and no Table and
\* no detail pane of the controller changes in that step.
C27_ResizeReachesOnlyModal ==
    /\ []((LoopReady /\ model.kind = "fuzzy")
            => \A h \in WinHeights : ModalOnWindowSize(model, h).height = h)
    /\ [][(model.kind = "fuzzy" /\ \E h \in WinHeights : ModalWindowSize(h))
            => /\ tables' = tables
               /\ issueDetailViews' = issueDetailViews]_vars

\* C28: on a resize processed by the controller, the Table and the detail
\* pane of every tab, not only of the active one, get the newly computed size.
C28_ResizeReachesEveryTab ==
    [][\A h \in WinHeights :
          WindowSize(h)
              => /\ size'.rawHeight = h
                 /\ \A t \in Tabs :
                       /\ tables'[t].rawHeight = size'.tableHeight
                       /\ issueDetailViews'[t].RawHeight = size'.previewHeight
                       /\ issueDetailViews'[t].contentHeight = size'.previewHeight - 1]_vars

\* the window was sized while another tab than the first was active, and the
\* tabs in the background have the size of the controller
C28_Witness ==
    /\ activeTab # 0
    /\ size.rawHeight = 20
    /\ size.tableHeight > 0
    /\ \A t \in Tabs :
          /\ tables[t].rawHeight = size.tableHeight
          /\ issueDetailViews[t].RawHeight = size.previewHeight

\* C29: with n tabs, right moves the active tab index from i to (i+1) mod n
\* and left moves it to (i-1) mod n; the index is always in [0, n-1].
C29_TabSwitchWraps ==
    /\ [](activeTab \in 0 .. (NTabs - 1))
    /\ [][/\ KeyRight => activeTab' = (activeTab + 1) % NTabs
          /\ KeyLeft => activeTab' = (activeTab - 1) % NTabs]_vars

\* the last of three tabs is active
C29_Witness ==
    /\ NTabs = 3
    /\ activeTab = NTabs - 1
    /\ model.kind = "list"

\* C30: an issue list or an issue detail requested for tab i changes the
\* Table and the detail pane of tab i only, whichever tab is active when the
\* result is handed to the controller.
C30_ResultGoesToItsTab ==
    [][\A x \in tasks :
          (IssueArrives(x) \/ ListArrives(x))
              => /\ activeTab' = activeTab
                 /\ \A t \in Tabs \ {x.tab} :
                       /\ tables'[t] = tables[t]
                       /\ issueDetailViews'[t] = issueDetailViews[t]]_vars

\* a tab in the background has its list and shows an issue, while the active
\* tab and the first tab have nothing yet
C30_Witness ==
    /\ activeTab = 2
    /\ tables[1].loaded /\ issueDetailViews[1].Data # NilIssue
    /\ ~tables[0].loaded /\ ~tables[2].loaded

\* the search of the active tab has returned and found no issue: Table.View
\* renders "No issues found"
ActiveTabEmpty ==
    /\ ListMode
    /\ tables[activeTab].loaded
    /\ tables[activeTab].allIssues = <<>>

\* C31: for a tab whose search returned 0 issues the table shows its
\* empty-state message, and as long as the tab holds 0 issues no step asks
\* the remote service for an issue detail of it and the program does not end.
C31_EmptyTabIsQuiet ==
    [][ActiveTabEmpty
          => /\ proc' = "running"
             /\ io' # io => "ProxyGetIssue" \notin io'
             /\ \A y \in tasks' : (y.kind = "fetch" /\ y.tab = activeTab) => y.key # ""]_vars

\* C32: while the list prefetches its first rows, at most concurrencyLimit
\* (3) goroutines are inside the detail fetch at any moment
C32_PrefetchPoolBounded == InFlight(tasks) <= concurrencyLimit

\* three fetches are in flight and another goroutine waits for a slot
C32_Witness ==
    /\ proc = "running"
    /\ InFlight(tasks) = concurrencyLimit
    /\ \E y \in tasks : y.kind = "prefetchOne" /\ y.pc = "acquire"

\* the values of the filters of collection c that have the key
StoredUnder(c, key) == {c[i].val : i \in {j \in DOMAIN c : c[j].key = key}}

NoResultPending == \A x \in tasks : x.kind \notin {"list", "relist", "fetch"}

\* C34: a list or a detail that is delivered while a modal is the active view
\* is not lost: once the controller is back and nothing is pending, every tab
\* shows the list that was searched for it and a detail of one of its issues
C34_ResultSurvivesModal ==
    (ListMode /\ proc = "running" /\ NoResultPending)
        => \A t \in Tabs :
              /\ tables[t].loaded
              /\ tables[t].allIssues = RemoteRows(remote, t)
              /\ tables[t].allIssues # <<>> => issueDetailViews[t].Data # NilIssue

\* the resolver of tab t after the toggle of issue k
Toggled(t, k) ==
    LET res == tabs[t].BoardStateResolver
    IN  SetBacklogState(res, k, IsOnBoard(res, k))

\* C35: a toggle requested on tab i uses the board id and the resolver of tab
\* i, and its completion updates the resolver and the table of tab i only,
\* whatever tab is active when it runs and completes (the remote service
\* accepts every move in SpecToggleTabs)
C35_ToggleStaysOnItsTab ==
    [][\A x \in tasks :
          (x.kind = "toggle" /\ x \notin tasks')
              => /\ \A j \in Tabs \ {x.tab} : tabs'[j] = tabs[j] /\ tables'[j] = tables[j]
                 /\ (x.pc = "start" /\ tabs[x.tab].BoardId # 0
                                    /\ tabs[x.tab].BoardStateResolver.present)
                       => /\ \E y \in tasks' : y.kind = "toggle" /\ y.pc = "send" /\ y.err = "none"
                          /\ tabs'[x.tab].BoardStateResolver = Toggled(x.tab, x.key)
                 /\ x.pc = "send"
                       => \A y \in tasks' \ tasks : y.kind = "relist" => y.tab = x.tab]_vars

\* C36: when two reloads of a tab are in flight, the table shows the list of
\* the reload requested last once both results are in: a result of an earlier
\* request that arrives after it, as the last one pending, does not replace
\* the rows (in SpecReload only list results change the rows of tab 0)
C36_LastRequestedReloadWins ==
    [][\A x \in tasks :
          (/\ ListArrives(x) /\ x.kind = "list" /\ x.orphan
           /\ tables[x.tab].loaded
           /\ \A y \in tasks' : ~(y.kind = "list" /\ y.tab = x.tab))
              => tables'[x.tab].allIssues = tables[x.tab].allIssues]_vars

\* nothing that ends in a detail for tab t is in flight
NoFetchPending(t) ==
    \A x \in tasks : ~(x.kind \in {"list", "relist", "fetch"} /\ x.tab = t)

\* C37: once no detail fetch is in flight, the detail pane of a tab whose
\* active set is not empty shows the issue under the cursor, also after the
\* filter keys have changed which issue that is
C37_PaneFollowsCursor ==
    \A t \in Tabs :
        (/\ proc = "running"
         /\ tables[t].loaded
         /\ NoFetchPending(t)
         /\ issuePool(tables[t]) # <<>>)
            => issueDetailViews[t].Data.key = KeyUnderCursor(tables[t])

\* C38: for the last widget height H a table has received, its viewport
\* height is H - 6 outside Filtering and H - 6 - sorterHeight in Filtering
C38_ViewportFollowsMode ==
    \A t \in Tabs :
        tables[t].rawHeight # 0
            => tables[t].viewportHeight
                 = TableResize(tables[t], tables[t].rawHeight).viewportHeight
                     - (IF tables[t].SorterState = SorterFiltering THEN sorterHeight ELSE 0)

\* C39: a status message stays for its full second: no step clears a
\* message that was set less than a second before
C39_MessageStaysItsSecond ==
    [][(status.message # NoMessage /\ status'.message = NoMessage)
          => status.now - status.shownAt >= Second]_vars

\* the move command of toggle x has failed in this step, on a tab that has a
\* board and a resolver
ToggleMoveFails(x) ==
    /\ x.kind = "toggle" /\ x.pc = "start"
    /\ tabs[activeTab].BoardId # 0 /\ tabs[activeTab].BoardStateResolver.present
    /\ [x EXCEPT !.pc = "send", !.err = "error"] \in tasks'

\* C40: when the move command of a toggle for issue K fails, the resolver of
\* the tab is unchanged and IsOnBoard(K) is what it was; the handler of the
\* failure leaves the resolver alone as well
C40_FailedToggleKeepsResolver ==
    [][\A x \in tasks :
          /\ ToggleMoveFails(x)
                => /\ tabs' = tabs
                   /\ IsOnBoard(tabs'[activeTab].BoardStateResolver, x.key)
                         = IsOnBoard(tabs[activeTab].BoardStateResolver, x.key)
          /\ (x.kind = "toggle" /\ x.pc = "send" /\ x.err # "none" /\ x \notin tasks')
                => tabs' = tabs]_vars

\* the failure of a move has been handled: the error screen is shown, the tab
\* has its board and its resolver, and B is still in the backlog
C40_Witness ==
    /\ model.kind = "error"
    /\ NoTogglePending
    /\ tabs[0].BoardId # 0
    /\ tabs[0].BoardStateResolver.present
    /\ ~IsOnBoard(tabs[0].BoardStateResolver, "B")
    /\ remote.backlog = {"B"}
    /\ tables[0].cursor = 1

----------------------------------------------------------------------------
(* Specifications *)

FetchHeights == {10}

\* the steps every specification has: loading the lists and the details
Loading ==
    \/ \E x \in tasks : ListFetch(x, TRUE, TRUE)
    \/ \E x \in tasks : FetchStart(x, TRUE)
    \/ \E x \in tasks : FetchWrite(x)
    \/ \E x \in tasks : DeliverIssue(x)
    \/ \E x \in tasks : DeliverList(x)

\* moving the cursor and fetching details, with requests that may fail
NextFetch ==
    \/ \E h \in FetchHeights : WindowSize(h)
    \/ KeyDown
    \/ KeyUp
    \/ \E x \in tasks, b1, b2 \in BOOLEAN : ListFetch(x, b1, b2)
    \/ \E x \in tasks, ok \in BOOLEAN : FetchStart(x, ok)
    \/ \E x \in tasks : FetchWrite(x)
    \/ \E x \in tasks : FetchWriteRace(x)
    \/ \E x \in tasks : DeliverIssue(x)
    \/ \E x \in tasks : DeliverList(x)

SpecFetch == Init /\ [][NextFetch]_vars

\* edit, move and comment in a subprocess
NextEdit ==
    \/ Loading
    \/ KeyDown
    \/ \E what \in {"edit", "move", "comment"}, ok \in BOOLEAN : KeyExec(what, ok)
    \/ \E outcome \in {"none", "error", "interrupt"} : ExecFinish(outcome)
    \/ \E x \in tasks, ok \in BOOLEAN : DeliverDone(x, ok)
    \/ \E x \in tasks : RelistRun(x)
    \/ \E x \in tasks : FetchStart(x, FALSE)

SpecEdit == InitOneTab /\ [][NextEdit]_vars

\* assigning a user or an epic
NextAssign ==
    \/ Loading
    \/ \E b1, b2 \in BOOLEAN : KeyAssign(b1, b2)
    \/ \E ok \in BOOLEAN : KeyEpic(ok)
    \/ FuzzyCancel
    \/ FuzzyEnter
    \/ \E x \in tasks, b1, b2, b3 \in BOOLEAN : DeliverFuzzy(x, b1, b2, b3)
    \/ ExecFinish("none")
    \/ \E x \in tasks : DeliverDone(x, TRUE)
    \/ \E x \in tasks : RelistRun(x)

SpecAssign == InitOneTab /\ [][NextAssign]_vars

\* moving issues between board and backlog, one toggle at a time
NextToggle ==
    \/ Loading
    \/ KeyDown
    \/ \E ok \in BOOLEAN : NoTogglePending /\ KeyToggle(ok)
    \/ \E x \in tasks, ok \in BOOLEAN : ToggleRun(x, ok)
    \/ \E x \in tasks : DeliverToggle(x, TRUE)
    \/ \E x \in tasks : RelistRun(x)
    \/ ErrorClose
    \/ \E x \in tasks : DeliverWinSize(x)

SpecToggle == InitOneTab /\ [][NextToggle]_vars

\* filtering the table
NextFilter ==
    \/ Loading
    \/ KeyDown
    \/ KeySlash
    \/ \E c \in FilterChars : FilterChar(c)
    \/ FilterBackspace
    \/ FilterEnter
    \/ FilterEsc
    \/ KeyEscActive

SpecFilter == InitOneTab /\ [][NextFilter]_vars

\* moving the cursor up and down, with and without a filter
NextMove ==
    \/ Loading
    \/ KeyDown
    \/ KeyUp
    \/ KeySlash
    \/ \E c \in FilterChars : FilterChar(c)
    \/ FilterBackspace
    \/ FilterEnter
    \/ FilterEsc

SpecMove == InitOneTab /\ [][NextMove]_vars

\* the same keys in and out of the filter: "a" is text in Filtering and the
\* assign command elsewhere
NextKeys ==
    \/ Loading
    \/ KeyDown
    \/ KeySlash
    \/ \E c \in FilterChars : FilterChar(c)
    \/ FilterBackspace
    \/ FilterEnter
    \/ FilterEsc
    \/ KeyEscActive
    \/ KeyAssign(TRUE, TRUE)
    \/ FuzzyCancel

SpecKeys == InitOneTab /\ [][NextKeys]_vars

\* subprocesses that fail or are interrupted, and the error overlay
NextError ==
    \/ Loading
    \/ \E what \in {"edit", "move", "comment"} : KeyExec(what, TRUE)
    \/ KeyEpic(TRUE)
    \/ FuzzyCancel
    \/ FuzzyEnter
    \/ \E x \in tasks : DeliverFuzzy(x, TRUE, TRUE, TRUE)
    \/ \E outcome \in {"none", "error", "interrupt"} : ExecFinish(outcome)
    \/ \E x \in tasks : DeliverDone(x, TRUE)
    \/ \E x \in tasks : RelistRun(x)
    \/ ErrorClose
    \/ \E x \in tasks : DeliverWinSize(x)

SpecError == InitOneTab /\ [][NextError]_vars

\* scrolling and resizing the detail pane
NextPane ==
    \/ Loading
    \/ \E h \in WinHeights : WindowSize(h)
    \/ KeyDown
    \/ KeyScrollDown
    \/ KeyScrollUp

SpecPane == InitOneTab /\ [][NextPane]_vars

\* several tabs: switching between them and sizing them
NextTabs ==
    \/ Loading
    \/ \E h \in WinHeights : WindowSize(h)
    \/ KeyRight
    \/ KeyLeft

SpecTabs == InitThreeTabs /\ [][NextTabs]_vars

\* several tabs, one of them without issues, and the keys that work on the
\* issue under the cursor
NextEmpty ==
    \/ Loading
    \/ KeyRight
    \/ KeyLeft
    \/ KeyDown
    \/ KeyAssign(TRUE, TRUE)
    \/ FuzzyCancel

SpecEmpty == InitThreeTabs /\ [][NextEmpty]_vars

\* the models that take the place of the controller, and the sizes they see
NextModal ==
    \/ Loading
    \/ \E h \in WinHeights : WindowSize(h)
    \/ \E okUsers \in BOOLEAN : KeyAssign(TRUE, okUsers)
    \/ KeyHelp
    \/ FuzzyCancel
    \/ HelpClose
    \/ ErrorClose
    \/ \E h \in WinHeights : ModalWindowSize(h)
    \/ \E x \in tasks : DeliverWinSize(x)

SpecModal == InitOneTab /\ [][NextModal]_vars

\* selecting the links of the issue in the detail pane
NextLinks ==
    \/ Loading
    \/ \E h \in WinHeights : WindowSize(h)
    \/ KeyDown
    \/ KeyScrollDown
    \/ KeyScrollUp
    \/ KeyCycleLink

SpecLinks == InitOneTab /\ [][NextLinks]_vars

\* the prefetch of the first rows, with fetches that may fail
NextPrefetch ==
    \/ \E x \in tasks : prefetchTopIssues(x)
    \/ \E x \in tasks : PrefetchLoop(x)
    \/ \E y \in tasks : PrefetchAcquire(y)
    \/ \E y \in tasks, ok \in BOOLEAN : PrefetchFetch(y, ok)
    \/ \E y \in tasks : PrefetchWrite(y)
    \/ \E y \in tasks : PrefetchWriteRace(y)
    \/ \E x \in tasks : PrefetchWait(x)

SpecPrefetch == InitPrefetch /\ [][NextPrefetch]_vars

\* lookups in a filter collection
NextLookup ==
    \/ \E x \in tasks : TestCollectionGet(x)
    \/ \E x \in tasks : TestCollectionGetInt(x)

SpecLookup == InitLookup /\ [][NextLookup]_vars

\* toggles that run and complete while the user switches tabs
NextToggleTabs ==
    \/ Loading
    \/ KeyRight
    \/ KeyLeft
    \/ NoTogglePending /\ KeyToggle(TRUE)
    \/ \E x \in tasks : ToggleRun(x, TRUE)
    \/ \E x \in tasks : DeliverToggle(x, TRUE)
    \/ \E x \in tasks : RelistRun(x)
    \/ ErrorClose
    \/ \E x \in tasks : DeliverWinSize(x)

SpecToggleTabs == Init /\ [][NextToggleTabs]_vars

\* reloads of the first tab while an issue is edited in the second
NextReload ==
    \/ Loading
    \/ KeyRight
    \/ KeyLeft
    \/ activeTab = 0 /\ KeyReload
    \/ activeTab = 1 /\ KeyExec("edit", TRUE)
    \/ ExecFinish("none")
    \/ \E x \in tasks : activeTab = 1 /\ DeliverDone(x, TRUE)
    \/ \E x \in tasks : RelistRun(x)

SpecReload == Init /\ [][NextReload]_vars

\* typing a filter with the cursor on the first row
NextType ==
    \/ Loading
    \/ KeySlash
    \/ \E c \in FilterChars : FilterChar(c)
    \/ FilterBackspace
    \/ FilterEnter
    \/ FilterEsc
    \/ KeyEscActive

SpecType == InitOneTab /\ [][NextType]_vars

\* opening and closing the filter line while the terminal is resized
NextViewport ==
    \/ Loading
    \/ \E h \in WinHeights : WindowSize(h)
    \/ KeySlash
    \/ FilterEnter
    \/ FilterEsc
    \/ KeyEscActive

SpecViewport == InitOneTab /\ [][NextViewport]_vars

\* copying the URL of an issue, twice within a second or not
NextStatus ==
    \/ Loading
    \/ KeyDown
    \/ KeyCopy
    \/ TimePasses
    \/ \E x \in tasks : DeliverStatusClear(x)

SpecStatus == InitOneTab /\ [][NextStatus]_vars

\* detail requests that fail, in a command or in the handler of a key,
\* before and after an issue has been changed
NextFail ==
    \/ Loading
    \/ KeyDown
    \/ \E what \in {"edit", "move", "comment"} : KeyExec(what, FALSE)
    \/ \E x \in tasks : FetchStart(x, FALSE)
    \/ ExecFinish("none")
    \/ \E x \in tasks : DeliverDone(x, TRUE)
    \/ \E x \in tasks : RelistRun(x)

SpecFail == InitOneTab /\ [][NextFail]_vars

====
